---- MODULE Spec2Model ----
(***************************************************************************)
(* MonGuard compliance engine: RiskRegistry, ComplianceOracle,             *)
(* TransactionMonitor, ComplianceEnforcement and RegulatoryNFT as one      *)
(* state machine.  Every external call is one atomic step (the ledger      *)
(* serialises transactions); a call whose require fails reverts: it        *)
(* changes nothing but the record `last` of the most recent call.          *)
(*                                                                         *)
(* Units: amounts are counted in ether, time in ticks of twelve hours      *)
(* (so `1 days` and `24 hours` are 2 ticks).  uint256 amounts are scaled   *)
(* to 0..UintMax; Solidity 0.8 checked arithmetic reverts on overflow.     *)
(***************************************************************************)
EXTENDS Integers, Sequences, FiniteSets, TLC

(***************************************************************************)
(* Identities                                                              *)
(***************************************************************************)
ZERO == "0x0"
A1 == "a1"
A2 == "a2"
Accounts == {A1, A2}
Addresses == {ZERO, A1, A2}

\* externally owned callers: the deployer, and an account holding no role
OWNER == "owner"
USER == "user"
Callers == {OWNER, USER}

\* the contracts, as msg.sender of the calls they make into RiskRegistry
ComplianceOracleAddr == "ComplianceOracle"
TransactionMonitorAddr == "TransactionMonitor"

(***************************************************************************)
(* Bounds of the model                                                     *)
(***************************************************************************)
\* largest block.timestamp explored (ticks)
MaxTime == 5
\* total number of entries pushed to the per-level index addressesByRisk
MaxIndexed == 2
\* the same total, counting the entries the monitor's automated updates push
MaxFolded == 3
\* number of registered data sources
MaxSources == 1
\* the same, where registrations are followed one after the other
MaxRegistrations == 2
\* number of analysed transactions
MaxAnalyses == 2
\* number of delayed transactions
MaxDelayed == 1
\* number of reports minted
MaxReports == 2
\* largest value of the (scaled) uint256 amounts
UintMax == 1023

(***************************************************************************)
(* Program constants                                                       *)
(***************************************************************************)
OneDay == 2
HighRiskThresholdInit == 70
CriticalRiskThresholdInit == 90

RiskLevels == {"NONE", "LOW", "MEDIUM", "HIGH", "CRITICAL"}

(***************************************************************************)
(* Role membership: each constructor grants every role of its contract to *)
(* the deployer; the deployment script and the tests' beforeEach grant     *)
(* ORACLE_ROLE on RiskRegistry to ComplianceOracle and TransactionMonitor. *)
(***************************************************************************)
Registry_ORACLE_ROLE == {OWNER, ComplianceOracleAddr, TransactionMonitorAddr}
Registry_AUDITOR_ROLE == {OWNER}
Oracle_ADMIN_ROLE == {OWNER}
Oracle_UPDATER_ROLE == {OWNER}
Oracle_VALIDATOR_ROLE == {OWNER}
Monitor_ADMIN_ROLE == {OWNER}
Monitor_MONITOR_ROLE == {OWNER}
Monitor_AI_ORACLE_ROLE == {OWNER}
Enforcement_ADMIN_ROLE == {OWNER}
Enforcement_ENFORCER_ROLE == {OWNER}
Enforcement_WHITELIST_MANAGER_ROLE == {OWNER}
NFT_AUDITOR_ROLE == {OWNER}
NFT_COMPLIANCE_OFFICER_ROLE == {OWNER}

VARIABLES
  now,                    \* block.timestamp
  last,                   \* the most recent call: its name and whether it succeeded
  riskAssessments,        \* RiskRegistry
  addressesByRisk,
  totalAssessments,
  sanctionedAddresses,    \* ComplianceOracle
  sanctionedJurisdictions,
  dataSources,
  dataSourceIds,
  complianceChecks,
  transactionAnalyses,    \* TransactionMonitor
  addressTransactions,
  alerts,
  alertCounter,
  flaggedTransactionCount,
  highRiskThreshold,
  criticalRiskThreshold,
  accountStatuses,        \* ComplianceEnforcement
  delayedTransactions,
  accountDelayedTxs,
  enforcementEnabled,
  reports,                \* RegulatoryNFT
  owners,
  subjectReports,
  issuerReports,
  tokenIdCounter,
  tokenURIs

riskVars == <<riskAssessments, addressesByRisk, totalAssessments>>
oracleVars == <<sanctionedAddresses, sanctionedJurisdictions, dataSources, dataSourceIds, complianceChecks>>
monitorVars == <<transactionAnalyses, addressTransactions, alerts, alertCounter, flaggedTransactionCount, highRiskThreshold, criticalRiskThreshold>>
enforcementVars == <<accountStatuses, delayedTransactions, accountDelayedTxs, enforcementEnabled>>
nftVars == <<reports, owners, subjectReports, issuerReports, tokenIdCounter, tokenURIs>>
stateVars == <<riskVars, oracleVars, monitorVars, enforcementVars, nftVars>>
vars == <<now, last, stateVars>>

\* what a call may be refused with
Unauthorized == "AccessControlUnauthorizedAccount"
Overflow == "Panic(0x11)"

\* a successful call, with its arguments (msg.sender first)
Done(op, args) == last' = [op |-> op, ok |-> TRUE, args |-> args, err |-> ""]

\* a reverted call: every storage write of the transaction is rolled back
Revert(op, err) ==
  /\ last' = [op |-> op, ok |-> FALSE, args |-> <<>>, err |-> err]
  /\ UNCHANGED <<now, stateVars>>

(***************************************************************************)
(* RiskRegistry                                                            *)
(***************************************************************************)
NoAssessment == [level |-> "NONE", score |-> 0, timestamp |-> 0, reason |-> "", assessor |-> ZERO, active |-> FALSE]

\* the registry's storage as one value, so that nested calls compose
RegistryState == [ra |-> riskAssessments, idx |-> addressesByRisk, total |-> totalAssessments]

RECURSIVE SumLen(_, _)
SumLen(f, S) == IF S = {} THEN 0 ELSE LET x == CHOOSE y \in S : TRUE IN Len(f[x]) + SumLen(f, S \ {x})

\* number of entries in the per-level index
Indexed(idx) == SumLen(idx, RiskLevels)

\* the table with every boundary score one level too low
_scoreToLevel_Exclusive(score) ==
  IF score > 90 THEN "CRITICAL"
  ELSE IF score > 70 THEN "HIGH"
  ELSE IF score > 40 THEN "MEDIUM"
  ELSE IF score > 10 THEN "LOW"
  ELSE "NONE"

_scoreToLevel(score) ==
  IF score >= 90 THEN "CRITICAL"
  ELSE IF score >= 70 THEN "HIGH"
  ELSE IF score >= 40 THEN "MEDIUM"
  ELSE IF score >= 10 THEN "LOW"
  ELSE "NONE"

\* assessRisk without the require on the score
assessRiskError_AnyScore(sender, target, score, reason) ==
  IF sender \notin Registry_ORACLE_ROLE THEN Unauthorized
  ELSE IF target = ZERO THEN "Invalid target address"
  ELSE IF reason = "" THEN "Reason required"
  ELSE ""

\* assessRisk without the require on the reason
assessRiskError_NoReason(sender, target, score, reason) ==
  IF sender \notin Registry_ORACLE_ROLE THEN Unauthorized
  ELSE IF target = ZERO THEN "Invalid target address"
  ELSE IF score > 100 THEN "Score must be 0-100"
  ELSE ""

\* the first require of assessRisk that fails for msg.sender = sender ("" when none does)
assessRiskError(sender, target, score, reason) ==
  IF sender \notin Registry_ORACLE_ROLE THEN Unauthorized
  ELSE IF target = ZERO THEN "Invalid target address"
  ELSE IF score > 100 THEN "Score must be 0-100"
  ELSE IF reason = "" THEN "Reason required"
  ELSE ""

\* assessRisk that keeps the old score of an account already assessed
assessRiskWrites_KeepScore(rs, sender, target, level, score, reason) ==
  LET old == rs.ra[target] IN
  [ra |-> [rs.ra EXCEPT ![target] = [level |-> level, score |-> IF old.active THEN old.score ELSE score, timestamp |-> now,
                                     reason |-> reason, assessor |-> sender, active |-> TRUE]],
   idx |-> [rs.idx EXCEPT ![level] = Append(@, target)],
   total |-> IF old.level = "NONE" THEN rs.total + 1 ELSE rs.total]

\* the writes of assessRisk on the registry state rs
assessRiskWrites(rs, sender, target, level, score, reason) ==
  LET oldLevel == rs.ra[target].level IN
  [ra |-> [rs.ra EXCEPT ![target] = [level |-> level, score |-> score, timestamp |-> now, reason |-> reason, assessor |-> sender, active |-> TRUE]],
   idx |-> [rs.idx EXCEPT ![level] = Append(@, target)],
   total |-> IF oldLevel = "NONE" THEN rs.total + 1 ELSE rs.total]

SetRegistry(rs) ==
  /\ riskAssessments' = rs.ra
  /\ addressesByRisk' = rs.idx
  /\ totalAssessments' = rs.total

assessRisk(caller, target, level, score, reason) ==
  LET err == assessRiskError(caller, target, score, reason) IN
  /\ Indexed(addressesByRisk) < MaxIndexed
  /\ IF err = ""
     THEN /\ SetRegistry(assessRiskWrites(RegistryState, caller, target, level, score, reason))
          /\ Done("assessRisk", <<caller, target, level, score, reason>>)
          /\ UNCHANGED <<now, oracleVars, monitorVars, enforcementVars, nftVars>>
     ELSE Revert("assessRisk", err)

updateRiskScoreError(caller, target, newScore) ==
  IF caller \notin Registry_ORACLE_ROLE THEN Unauthorized
  ELSE IF newScore > 100 THEN "Score must be 0-100"
  ELSE IF ~riskAssessments[target].active THEN "No active assessment"
  ELSE ""

updateRiskScore(caller, target, newScore) ==
  LET err == updateRiskScoreError(caller, target, newScore) IN
  /\ Indexed(addressesByRisk) < MaxIndexed
  /\ IF err = ""
     THEN LET oldLevel == riskAssessments[target].level
              newLevel == _scoreToLevel(newScore)
          IN /\ riskAssessments' = [riskAssessments EXCEPT
                    ![target].score = newScore,
                    ![target].timestamp = now,
                    ![target].level = IF newLevel # oldLevel THEN newLevel ELSE @]
             /\ addressesByRisk' = IF newLevel # oldLevel
                                   THEN [addressesByRisk EXCEPT ![newLevel] = Append(@, target)]
                                   ELSE addressesByRisk
             /\ UNCHANGED totalAssessments
             /\ Done("updateRiskScore", <<caller, target, newScore>>)
             /\ UNCHANGED <<now, oracleVars, monitorVars, enforcementVars, nftVars>>
     ELSE Revert("updateRiskScore", err)

clearRiskError(caller, target) ==
  IF caller \notin Registry_AUDITOR_ROLE THEN Unauthorized
  ELSE IF ~riskAssessments[target].active THEN "No active assessment"
  ELSE ""

\* clearRisk as it would be if clearing the assessment also lifted the sanction
clearRisk_Unsanctions(caller, target) ==
  LET err == clearRiskError(caller, target) IN
  IF err = ""
  THEN /\ riskAssessments' = [riskAssessments EXCEPT ![target].active = FALSE]
       /\ sanctionedAddresses' = [sanctionedAddresses EXCEPT ![target] = FALSE]
       /\ UNCHANGED <<addressesByRisk, totalAssessments>>
       /\ Done("clearRisk", <<caller, target>>)
       /\ UNCHANGED <<now, sanctionedJurisdictions, dataSources, dataSourceIds, complianceChecks,
                      monitorVars, enforcementVars, nftVars>>
  ELSE Revert("clearRisk", err)

clearRisk(caller, target) ==
  LET err == clearRiskError(caller, target) IN
  IF err = ""
  THEN /\ riskAssessments' = [riskAssessments EXCEPT ![target].active = FALSE]
       /\ UNCHANGED <<addressesByRisk, totalAssessments>>
       /\ Done("clearRisk", <<caller, target>>)
       /\ UNCHANGED <<now, oracleVars, monitorVars, enforcementVars, nftVars>>
  ELSE Revert("clearRisk", err)

getRiskAssessment(target) == riskAssessments[target]

\* isHighRisk read from the stored level alone, retired assessments included
isHighRisk_IgnoresActive(target) ==
  riskAssessments[target].level \in {"HIGH", "CRITICAL"}

isHighRisk(target) ==
  /\ riskAssessments[target].active
  /\ riskAssessments[target].level \in {"HIGH", "CRITICAL"}

getRiskLevel(target) == IF riskAssessments[target].active THEN riskAssessments[target].level ELSE "NONE"

getRiskScore(target) == IF riskAssessments[target].active THEN riskAssessments[target].score ELSE 0

(***************************************************************************)
(* ComplianceOracle                                                        *)
(***************************************************************************)
NoSource == <<"", 0>>
NoDataSource == [name |-> "", endpoint |-> "", lastUpdate |-> 0, active |-> FALSE]
NoCheck == [isSanctioned |-> FALSE, isPEP |-> FALSE, jurisdiction |-> "", timestamp |-> 0, dataSourceId |-> NoSource]

\* keccak256(abi.encodePacked(name, block.timestamp)): equal exactly on equal inputs
SourceId(name, timestamp) == <<name, timestamp>>

\* mapping(bytes32 => DataSource): unwritten keys read as the zero record
DataSource(sourceId) == IF sourceId \in DOMAIN dataSources THEN dataSources[sourceId] ELSE NoDataSource

WriteSource(sourceId, record) ==
  [k \in DOMAIN dataSources \cup {sourceId} |-> IF k = sourceId THEN record ELSE dataSources[k]]

registerDataSource(caller, name, endpoint) ==
  /\ IF caller \in Oracle_ADMIN_ROLE
     THEN LET sourceId == SourceId(name, now) IN
          /\ dataSources' = WriteSource(sourceId, [name |-> name, endpoint |-> endpoint, lastUpdate |-> now, active |-> TRUE])
          /\ dataSourceIds' = Append(dataSourceIds, sourceId)
          /\ UNCHANGED <<sanctionedAddresses, sanctionedJurisdictions, complianceChecks>>
          /\ Done("registerDataSource", <<caller, name, endpoint>>)
          /\ UNCHANGED <<now, riskVars, monitorVars, enforcementVars, nftVars>>
     ELSE Revert("registerDataSource", Unauthorized)

\* the requires of sanctionAddress itself, with no regard to the nested call
sanctionAddressError_OwnRequires(caller, target, dataSourceId, reason) ==
  IF caller \notin Oracle_UPDATER_ROLE THEN Unauthorized
  ELSE IF target = ZERO THEN "Invalid address"
  ELSE IF ~DataSource(dataSourceId).active THEN "Invalid data source"
  ELSE ""

\* the first require that fails, the nested RiskRegistry.assessRisk included
sanctionAddressError(caller, target, dataSourceId, reason) ==
  IF caller \notin Oracle_UPDATER_ROLE THEN Unauthorized
  ELSE IF target = ZERO THEN "Invalid address"
  ELSE IF ~DataSource(dataSourceId).active THEN "Invalid data source"
  ELSE assessRiskError(ComplianceOracleAddr, target, 100, reason)

\* sanctionAddress that escalates the risk only of an account with no active assessment
sanctionAddress_NoEscalation(caller, target, dataSourceId, reason) ==
  LET err == sanctionAddressError(caller, target, dataSourceId, reason) IN
  /\ Indexed(addressesByRisk) < MaxIndexed
  /\ IF err = ""
     THEN /\ sanctionedAddresses' = [sanctionedAddresses EXCEPT ![target] = TRUE]
          /\ IF riskAssessments[target].active
             THEN UNCHANGED riskVars
             ELSE SetRegistry(assessRiskWrites(RegistryState, ComplianceOracleAddr, target, "CRITICAL", 100, reason))
          /\ UNCHANGED <<sanctionedJurisdictions, dataSources, dataSourceIds, complianceChecks>>
          /\ Done("sanctionAddress", <<caller, target, dataSourceId, reason>>)
          /\ UNCHANGED <<now, monitorVars, enforcementVars, nftVars>>
     ELSE Revert("sanctionAddress", err)

sanctionAddress(caller, target, dataSourceId, reason) ==
  LET err == sanctionAddressError(caller, target, dataSourceId, reason) IN
  /\ Indexed(addressesByRisk) < MaxIndexed
  /\ IF err = ""
     THEN /\ sanctionedAddresses' = [sanctionedAddresses EXCEPT ![target] = TRUE]
          /\ SetRegistry(assessRiskWrites(RegistryState, ComplianceOracleAddr, target, "CRITICAL", 100, reason))
          /\ UNCHANGED <<sanctionedJurisdictions, dataSources, dataSourceIds, complianceChecks>>
          /\ Done("sanctionAddress", <<caller, target, dataSourceId, reason>>)
          /\ UNCHANGED <<now, monitorVars, enforcementVars, nftVars>>
     ELSE Revert("sanctionAddress", err)

\* clearSanction open to every caller
clearSanctionError_AnyCaller(caller, target) ==
  IF ~sanctionedAddresses[target] THEN "Address not sanctioned" ELSE ""

clearSanctionError(caller, target) ==
  IF caller \notin Oracle_VALIDATOR_ROLE THEN Unauthorized
  ELSE IF ~sanctionedAddresses[target] THEN "Address not sanctioned"
  ELSE ""

\* clearSanction that retires the account's risk assessment with the flag
clearSanction_ClearsRisk(caller, target) ==
  LET err == clearSanctionError(caller, target) IN
  IF err = ""
  THEN /\ sanctionedAddresses' = [sanctionedAddresses EXCEPT ![target] = FALSE]
       /\ riskAssessments' = [riskAssessments EXCEPT ![target].active = FALSE]
       /\ UNCHANGED <<sanctionedJurisdictions, dataSources, dataSourceIds, complianceChecks>>
       /\ Done("clearSanction", <<caller, target>>)
       /\ UNCHANGED <<now, addressesByRisk, totalAssessments, monitorVars, enforcementVars, nftVars>>
  ELSE Revert("clearSanction", err)

clearSanction(caller, target) ==
  LET err == clearSanctionError(caller, target) IN
  IF err = ""
  THEN /\ sanctionedAddresses' = [sanctionedAddresses EXCEPT ![target] = FALSE]
       /\ UNCHANGED <<sanctionedJurisdictions, dataSources, dataSourceIds, complianceChecks>>
       /\ Done("clearSanction", <<caller, target>>)
       /\ UNCHANGED <<now, riskVars, monitorVars, enforcementVars, nftVars>>
  ELSE Revert("clearSanction", err)

\* the snapshot's flag taken from the sanction list of addresses alone
checkIsSanctioned_AddressOnly(target, jurisdiction) == sanctionedAddresses[target]

\* bool isSanctioned = sanctionedAddresses[target] || sanctionedJurisdictions[jurisdiction]
checkIsSanctioned(target, jurisdiction) == sanctionedAddresses[target] \/ jurisdiction \in sanctionedJurisdictions

performComplianceCheckError(caller, target, jurisdiction, isPEP, dataSourceId) ==
  IF caller \notin Oracle_UPDATER_ROLE THEN Unauthorized
  ELSE IF ~DataSource(dataSourceId).active THEN "Invalid data source"
  ELSE IF checkIsSanctioned(target, jurisdiction) THEN assessRiskError(ComplianceOracleAddr, target, 100, "Sanctioned entity")
  ELSE IF isPEP THEN assessRiskError(ComplianceOracleAddr, target, 75, "PEP identified")
  ELSE ""

performComplianceCheck(caller, target, jurisdiction, isPEP, dataSourceId) ==
  LET sanctioned == checkIsSanctioned(target, jurisdiction)
      riskScore == IF sanctioned THEN 100 ELSE 75
      level == IF sanctioned THEN "CRITICAL" ELSE "HIGH"
      reason == IF sanctioned THEN "Sanctioned entity" ELSE "PEP identified"
      err == performComplianceCheckError(caller, target, jurisdiction, isPEP, dataSourceId)
  IN
  /\ (sanctioned \/ isPEP) => Indexed(addressesByRisk) < MaxIndexed
  /\ IF err = ""
     THEN /\ complianceChecks' = [complianceChecks EXCEPT ![target] =
                 [isSanctioned |-> sanctioned, isPEP |-> isPEP, jurisdiction |-> jurisdiction, timestamp |-> now, dataSourceId |-> dataSourceId]]
          /\ dataSources' = [dataSources EXCEPT ![dataSourceId].lastUpdate = now]
          /\ IF sanctioned \/ isPEP
             THEN SetRegistry(assessRiskWrites(RegistryState, ComplianceOracleAddr, target, level, riskScore, reason))
             ELSE UNCHANGED riskVars
          /\ UNCHANGED <<sanctionedAddresses, sanctionedJurisdictions, dataSourceIds>>
          /\ Done("performComplianceCheck", <<caller, target, jurisdiction, isPEP, dataSourceId>>)
          /\ UNCHANGED <<now, monitorVars, enforcementVars, nftVars>>
     ELSE Revert("performComplianceCheck", err)

sanctionJurisdiction(caller, jurisdiction) ==
  IF caller \in Oracle_UPDATER_ROLE
  THEN /\ sanctionedJurisdictions' = sanctionedJurisdictions \cup {jurisdiction}
       /\ UNCHANGED <<sanctionedAddresses, dataSources, dataSourceIds, complianceChecks>>
       /\ Done("sanctionJurisdiction", <<caller, jurisdiction>>)
       /\ UNCHANGED <<now, riskVars, monitorVars, enforcementVars, nftVars>>
  ELSE Revert("sanctionJurisdiction", Unauthorized)

isSanctioned(target) == sanctionedAddresses[target]

getComplianceCheck(target) == complianceChecks[target]

isCompliant(target) ==
  /\ ~complianceChecks[target].isSanctioned
  /\ complianceChecks[target].jurisdiction \notin sanctionedJurisdictions

(***************************************************************************)
(* TransactionMonitor                                                      *)
(***************************************************************************)
PatternTypes == {"NORMAL", "STRUCTURING", "RAPID_MOVEMENT", "MIXING", "HIGH_VOLUME", "SANCTION_INTERACTION"}

NoAlert == [id |-> 0, target |-> ZERO, pattern |-> "NORMAL", severity |-> "INFO", description |-> "", timestamp |-> 0, resolved |-> FALSE, resolver |-> ZERO]

\* mapping(uint256 => Alert): unwritten keys read as the zero record
Alert(alertId) == IF alertId \in DOMAIN alerts THEN alerts[alertId] ELSE NoAlert

WriteAlert(alertId, record) ==
  [k \in DOMAIN alerts \cup {alertId} |-> IF k = alertId THEN record ELSE alerts[k]]

\* _calculateSeverity with the thresholds of the constructor in place of the current ones
_calculateSeverity_InitialThresholds(score, pattern) ==
  IF pattern = "SANCTION_INTERACTION" \/ score >= CriticalRiskThresholdInit THEN "CRITICAL"
  ELSE IF pattern = "MIXING" \/ score >= HighRiskThresholdInit THEN "HIGH"
  ELSE IF pattern = "RAPID_MOVEMENT" \/ score >= 50 THEN "MEDIUM"
  ELSE IF pattern # "NORMAL" \/ score >= 25 THEN "LOW"
  ELSE "INFO"

_calculateSeverity(score, pattern) ==
  IF pattern = "SANCTION_INTERACTION" \/ score >= criticalRiskThreshold THEN "CRITICAL"
  ELSE IF pattern = "MIXING" \/ score >= highRiskThreshold THEN "HIGH"
  ELSE IF pattern = "RAPID_MOVEMENT" \/ score >= 50 THEN "MEDIUM"
  ELSE IF pattern # "NORMAL" \/ score >= 25 THEN "LOW"
  ELSE "INFO"

_scoreToRiskLevel(score) ==
  IF score >= 90 THEN "CRITICAL"
  ELSE IF score >= 70 THEN "HIGH"
  ELSE IF score >= 40 THEN "MEDIUM"
  ELSE IF score >= 10 THEN "LOW"
  ELSE "NONE"

\* the sender's new score, were the anomaly score to replace the old score
_newFromRisk_Replaces(from, anomalyScore) == anomalyScore

\* the sender's averaged score written by _updateRiskScores
_newFromRisk(from, anomalyScore) == (getRiskScore(from) + anomalyScore) \div 2

\* the registry after the two writes in the other order: the forced write, then the averaged one
_updateRiskScores_ForcedFirst(from, to, anomalyScore) ==
  LET newFromRisk == _newFromRisk(from, anomalyScore)
      forced == IF isSanctioned(to)
                THEN assessRiskWrites(RegistryState, TransactionMonitorAddr, from, "CRITICAL", 100, "Interaction with sanctioned address")
                ELSE RegistryState
  IN assessRiskWrites(forced, TransactionMonitorAddr, from, _scoreToRiskLevel(newFromRisk), newFromRisk,
                      "Automated risk update from transaction monitoring")

\* the registry after _updateRiskScores: the averaged write, then the forced one
_updateRiskScores(from, to, anomalyScore) ==
  LET newFromRisk == _newFromRisk(from, anomalyScore)
      averaged == assessRiskWrites(RegistryState, TransactionMonitorAddr, from, _scoreToRiskLevel(newFromRisk), newFromRisk,
                                   "Automated risk update from transaction monitoring")
  IN IF isSanctioned(to)
     THEN assessRiskWrites(averaged, TransactionMonitorAddr, from, "CRITICAL", 100, "Interaction with sanctioned address")
     ELSE averaged

\* number of transactions analysed so far (each is indexed under both parties)
Analysed == SumLen(addressTransactions, Addresses) \div 2

\* flagging by the pattern alone
isFlagged_PatternOnly(anomalyScore, pattern) == pattern # "NORMAL"

\* bool flagged = anomalyScore >= highRiskThreshold || pattern != PatternType.NORMAL
isFlagged(anomalyScore, pattern) == anomalyScore >= highRiskThreshold \/ pattern # "NORMAL"

\* the first require that fails, the nested RiskRegistry.assessRisk included
analyzeTransactionError(caller, from, pattern, anomalyScore) ==
  IF caller \notin Monitor_AI_ORACLE_ROLE THEN Unauthorized
  ELSE IF anomalyScore > 100 THEN "Invalid anomaly score"
  ELSE IF isFlagged(anomalyScore, pattern)
       THEN assessRiskError(TransactionMonitorAddr, from, _newFromRisk(from, anomalyScore), "Automated risk update from transaction monitoring")
  ELSE ""

analyzeTransaction(caller, txHash, from, to, amount, pattern, anomalyScore, notes) ==
  LET severity == _calculateSeverity(anomalyScore, pattern)
      flagged == isFlagged(anomalyScore, pattern)
      pushes == IF flagged THEN (IF isSanctioned(to) THEN 2 ELSE 1) ELSE 0
      indexedFrom == [addressTransactions EXCEPT ![from] = Append(@, txHash)]
      err == analyzeTransactionError(caller, from, pattern, anomalyScore)
  IN
  /\ Analysed < MaxAnalyses
  /\ Indexed(addressesByRisk) + pushes <= MaxFolded
  /\ IF err = ""
     THEN /\ transactionAnalyses' = [k \in DOMAIN transactionAnalyses \cup {txHash} |->
                 IF k = txHash
                 THEN [txHash |-> txHash, from |-> from, to |-> to, amount |-> amount, pattern |-> pattern, severity |-> severity,
                       anomalyScore |-> anomalyScore, timestamp |-> now, flagged |-> flagged, notes |-> notes]
                 ELSE transactionAnalyses[k]]
          /\ addressTransactions' = [indexedFrom EXCEPT ![to] = Append(@, txHash)]
          /\ IF flagged
             THEN /\ flaggedTransactionCount' = flaggedTransactionCount + 1
                  /\ alertCounter' = alertCounter + 1
                  /\ alerts' = WriteAlert(alertCounter + 1,
                         [id |-> alertCounter + 1, target |-> from, pattern |-> pattern, severity |-> severity,
                          description |-> notes, timestamp |-> now, resolved |-> FALSE, resolver |-> ZERO])
                  /\ SetRegistry(_updateRiskScores(from, to, anomalyScore))
             ELSE UNCHANGED <<flaggedTransactionCount, alertCounter, alerts, riskVars>>
          /\ UNCHANGED <<highRiskThreshold, criticalRiskThreshold>>
          /\ Done("analyzeTransaction", <<caller, txHash, from, to, amount, pattern, anomalyScore, notes>>)
          /\ UNCHANGED <<now, oracleVars, enforcementVars, nftVars>>
     ELSE Revert("analyzeTransaction", err)

resolveAlertError(caller, alertId) ==
  IF caller \notin Monitor_MONITOR_ROLE THEN Unauthorized
  ELSE IF Alert(alertId).resolved THEN "Alert already resolved"
  ELSE ""

resolveAlert(caller, alertId) ==
  LET err == resolveAlertError(caller, alertId) IN
  IF err = ""
  THEN /\ alerts' = WriteAlert(alertId, [Alert(alertId) EXCEPT !.resolved = TRUE, !.resolver = caller])
       /\ UNCHANGED <<transactionAnalyses, addressTransactions, alertCounter, flaggedTransactionCount, highRiskThreshold, criticalRiskThreshold>>
       /\ Done("resolveAlert", <<caller, alertId>>)
       /\ UNCHANGED <<now, riskVars, oracleVars, enforcementVars, nftVars>>
  ELSE Revert("resolveAlert", err)

\* updateThresholds without the ceiling on the critical threshold
updateThresholdsError_NoCeiling(caller, newHighRisk, newCritical) ==
  IF caller \notin Monitor_ADMIN_ROLE THEN Unauthorized
  ELSE IF ~(newHighRisk < newCritical) THEN "Invalid thresholds"
  ELSE ""

updateThresholdsError(caller, newHighRisk, newCritical) ==
  IF caller \notin Monitor_ADMIN_ROLE THEN Unauthorized
  ELSE IF ~(newHighRisk < newCritical) THEN "Invalid thresholds"
  ELSE IF ~(newCritical <= 100) THEN "Threshold too high"
  ELSE ""

updateThresholds(caller, newHighRisk, newCritical) ==
  LET err == updateThresholdsError(caller, newHighRisk, newCritical) IN
  IF err = ""
  THEN /\ highRiskThreshold' = newHighRisk
       /\ criticalRiskThreshold' = newCritical
       /\ UNCHANGED <<transactionAnalyses, addressTransactions, alerts, alertCounter, flaggedTransactionCount>>
       /\ Done("updateThresholds", <<caller, newHighRisk, newCritical>>)
       /\ UNCHANGED <<now, riskVars, oracleVars, enforcementVars, nftVars>>
  ELSE Revert("updateThresholds", err)

(***************************************************************************)
(* ComplianceEnforcement                                                   *)
(***************************************************************************)
\* neither has a setter: they keep their initial values (1000 ether, 24 hours)
defaultDailyLimit == 1000
delayPeriod == 2

NoStatus == [frozen |-> FALSE, whitelisted |-> FALSE, defaultAction |-> "NONE", dailyLimit |-> 0, dailySpent |-> 0,
             lastResetTimestamp |-> 0, freezeTimestamp |-> 0, freezeInitiator |-> ZERO, freezeReason |-> ""]

NoTxId == <<ZERO, ZERO, 0, 0>>
NoDelayed == [txId |-> NoTxId, from |-> ZERO, to |-> ZERO, amount |-> 0, data |-> "", delayUntil |-> 0,
              executed |-> FALSE, approved |-> FALSE, reviewer |-> ZERO]

\* the result of a view call that returns
Verdict(allowed, action, reason) == [reverted |-> FALSE, allowed |-> allowed, action |-> action, reason |-> reason]

\* a view call that ends in Panic(0x11), arithmetic overflow
Panic == [reverted |-> TRUE, allowed |-> FALSE, action |-> "NONE", reason |-> Overflow]

\* the limit _checkDailyLimit compares against
effectiveLimit(account) ==
  IF accountStatuses[account].dailyLimit > 0 THEN accountStatuses[account].dailyLimit ELSE defaultDailyLimit

\* "Reset if new day"
windowElapsed(account) == now >= accountStatuses[account].lastResetTimestamp + OneDay

\* status.dailySpent + amount does not fit in uint256
_checkDailyLimitOverflows(account, amount) ==
  /\ ~windowElapsed(account)
  /\ accountStatuses[account].dailySpent + amount > UintMax

\* the limit test on the amount alone, whatever was spent in the window
_checkDailyLimit_IgnoresSpent(account, amount) == amount > effectiveLimit(account)

_checkDailyLimit(account, amount) ==
  IF windowElapsed(account)
  THEN amount > effectiveLimit(account)
  ELSE (accountStatuses[account].dailySpent + amount) > effectiveLimit(account)

\* checkTransaction as it would be with the frozen-sender rule ahead of the whitelist rule
checkTransaction_FrozenFirst(from, to, amount) ==
  IF ~enforcementEnabled THEN Verdict(TRUE, "NONE", "")
  ELSE IF accountStatuses[from].frozen THEN Verdict(FALSE, "FREEZE", "Account frozen")
  ELSE IF accountStatuses[from].whitelisted THEN Verdict(TRUE, "NONE", "Whitelisted")
  ELSE IF accountStatuses[to].frozen THEN Verdict(FALSE, "BLOCK", "Recipient frozen")
  ELSE IF isSanctioned(from) THEN Verdict(FALSE, "FREEZE", "Sender sanctioned")
  ELSE IF isSanctioned(to) THEN Verdict(FALSE, "BLOCK", "Recipient sanctioned")
  ELSE IF getRiskLevel(from) = "CRITICAL" THEN Verdict(FALSE, "FREEZE", "Critical risk - sender")
  ELSE IF getRiskLevel(to) = "CRITICAL" THEN Verdict(FALSE, "BLOCK", "Critical risk - recipient")
  ELSE IF getRiskLevel(from) = "HIGH" THEN Verdict(FALSE, "DELAY", "High risk - requires review")
  ELSE IF _checkDailyLimitOverflows(from, amount) THEN Panic
  ELSE IF _checkDailyLimit(from, amount) THEN Verdict(FALSE, "LIMIT", "Daily limit exceeded")
  ELSE Verdict(TRUE, "NONE", "")

checkTransaction(from, to, amount) ==
  IF ~enforcementEnabled THEN Verdict(TRUE, "NONE", "")
  ELSE IF accountStatuses[from].whitelisted THEN Verdict(TRUE, "NONE", "Whitelisted")
  ELSE IF accountStatuses[from].frozen THEN Verdict(FALSE, "FREEZE", "Account frozen")
  ELSE IF accountStatuses[to].frozen THEN Verdict(FALSE, "BLOCK", "Recipient frozen")
  ELSE IF isSanctioned(from) THEN Verdict(FALSE, "FREEZE", "Sender sanctioned")
  ELSE IF isSanctioned(to) THEN Verdict(FALSE, "BLOCK", "Recipient sanctioned")
  ELSE IF getRiskLevel(from) = "CRITICAL" THEN Verdict(FALSE, "FREEZE", "Critical risk - sender")
  ELSE IF getRiskLevel(to) = "CRITICAL" THEN Verdict(FALSE, "BLOCK", "Critical risk - recipient")
  ELSE IF getRiskLevel(from) = "HIGH" THEN Verdict(FALSE, "DELAY", "High risk - requires review")
  ELSE IF _checkDailyLimitOverflows(from, amount) THEN Panic
  ELSE IF _checkDailyLimit(from, amount) THEN Verdict(FALSE, "LIMIT", "Daily limit exceeded")
  ELSE Verdict(TRUE, "NONE", "")

\* a call of checkTransaction that starts a new window when the old one has elapsed
checkTransactionCall_Rolls(caller, from, to, amount) ==
  LET r == checkTransaction(from, to, amount) IN
  IF r.reverted
  THEN Revert("checkTransaction", r.reason)
  ELSE /\ accountStatuses' = IF windowElapsed(from)
                             THEN [accountStatuses EXCEPT ![from].dailySpent = 0, ![from].lastResetTimestamp = now]
                             ELSE accountStatuses
       /\ UNCHANGED <<delayedTransactions, accountDelayedTxs, enforcementEnabled>>
       /\ Done("checkTransaction", <<caller, from, to, amount>>)
       /\ UNCHANGED <<now, riskVars, oracleVars, monitorVars, nftVars>>

\* a call of the view function: it returns, or it ends in the panic; it writes nothing
checkTransactionCall(caller, from, to, amount) ==
  LET r == checkTransaction(from, to, amount) IN
  IF r.reverted
  THEN Revert("checkTransaction", r.reason)
  ELSE /\ Done("checkTransaction", <<caller, from, to, amount>>)
       /\ UNCHANGED <<now, stateVars>>

\* freezeAccount without the test for an account already frozen
freezeAccountError_Refreezes(caller, account) ==
  IF caller \notin Enforcement_ENFORCER_ROLE THEN Unauthorized
  ELSE ""

freezeAccountError(caller, account) ==
  IF caller \notin Enforcement_ENFORCER_ROLE THEN Unauthorized
  ELSE IF accountStatuses[account].frozen THEN "Already frozen"
  ELSE ""

\* freezeAccount as it would be if it recorded the freeze without raising the flag
freezeAccount_NoFlag(caller, account, reason) ==
  LET err == freezeAccountError(caller, account) IN
  IF err = ""
  THEN /\ accountStatuses' = [accountStatuses EXCEPT
              ![account].freezeTimestamp = now,
              ![account].freezeInitiator = caller,
              ![account].freezeReason = reason]
       /\ UNCHANGED <<delayedTransactions, accountDelayedTxs, enforcementEnabled>>
       /\ Done("freezeAccount", <<caller, account, reason>>)
       /\ UNCHANGED <<now, riskVars, oracleVars, monitorVars, nftVars>>
  ELSE Revert("freezeAccount", err)

freezeAccount(caller, account, reason) ==
  LET err == freezeAccountError(caller, account) IN
  IF err = ""
  THEN /\ accountStatuses' = [accountStatuses EXCEPT
              ![account].frozen = TRUE,
              ![account].freezeTimestamp = now,
              ![account].freezeInitiator = caller,
              ![account].freezeReason = reason]
       /\ UNCHANGED <<delayedTransactions, accountDelayedTxs, enforcementEnabled>>
       /\ Done("freezeAccount", <<caller, account, reason>>)
       /\ UNCHANGED <<now, riskVars, oracleVars, monitorVars, nftVars>>
  ELSE Revert("freezeAccount", err)

unfreezeAccountError(caller, account) ==
  IF caller \notin Enforcement_ENFORCER_ROLE THEN Unauthorized
  ELSE IF ~accountStatuses[account].frozen THEN "Not frozen"
  ELSE ""

unfreezeAccount(caller, account) ==
  LET err == unfreezeAccountError(caller, account) IN
  IF err = ""
  THEN /\ accountStatuses' = [accountStatuses EXCEPT ![account].frozen = FALSE]
       /\ UNCHANGED <<delayedTransactions, accountDelayedTxs, enforcementEnabled>>
       /\ Done("unfreezeAccount", <<caller, account>>)
       /\ UNCHANGED <<now, riskVars, oracleVars, monitorVars, nftVars>>
  ELSE Revert("unfreezeAccount", err)

whitelistAccount(caller, account) ==
  IF caller \in Enforcement_WHITELIST_MANAGER_ROLE
  THEN /\ accountStatuses' = [accountStatuses EXCEPT ![account].whitelisted = TRUE]
       /\ UNCHANGED <<delayedTransactions, accountDelayedTxs, enforcementEnabled>>
       /\ Done("whitelistAccount", <<caller, account>>)
       /\ UNCHANGED <<now, riskVars, oracleVars, monitorVars, nftVars>>
  ELSE Revert("whitelistAccount", Unauthorized)

removeFromWhitelist(caller, account) ==
  IF caller \in Enforcement_WHITELIST_MANAGER_ROLE
  THEN /\ accountStatuses' = [accountStatuses EXCEPT ![account].whitelisted = FALSE]
       /\ UNCHANGED <<delayedTransactions, accountDelayedTxs, enforcementEnabled>>
       /\ Done("removeFromWhitelist", <<caller, account>>)
       /\ UNCHANGED <<now, riskVars, oracleVars, monitorVars, nftVars>>
  ELSE Revert("removeFromWhitelist", Unauthorized)

\* keccak256(abi.encodePacked(from, to, amount, block.timestamp)): equal exactly on equal inputs
DelayedTxId(from, to, amount, timestamp) == <<from, to, amount, timestamp>>

\* mapping(bytes32 => DelayedTransaction): unwritten keys read as the zero record
Delayed(txId) == IF txId \in DOMAIN delayedTransactions THEN delayedTransactions[txId] ELSE NoDelayed

WriteDelayed(txId, record) ==
  [k \in DOMAIN delayedTransactions \cup {txId} |-> IF k = txId THEN record ELSE delayedTransactions[k]]

createDelayedTransaction(caller, from, to, amount, data) ==
  /\ SumLen(accountDelayedTxs, Addresses) < MaxDelayed
  /\ IF caller \in Enforcement_ENFORCER_ROLE
     THEN LET txId == DelayedTxId(from, to, amount, now) IN
          /\ delayedTransactions' = WriteDelayed(txId,
                 [txId |-> txId, from |-> from, to |-> to, amount |-> amount, data |-> data, delayUntil |-> now + delayPeriod,
                  executed |-> FALSE, approved |-> FALSE, reviewer |-> ZERO])
          /\ accountDelayedTxs' = [accountDelayedTxs EXCEPT ![from] = Append(@, txId)]
          /\ UNCHANGED <<accountStatuses, enforcementEnabled>>
          /\ Done("createDelayedTransaction", <<caller, from, to, amount, data>>)
          /\ UNCHANGED <<now, riskVars, oracleVars, monitorVars, nftVars>>
     ELSE Revert("createDelayedTransaction", Unauthorized)

approveDelayedTransactionError(caller, txId) ==
  IF caller \notin Enforcement_ENFORCER_ROLE THEN Unauthorized
  ELSE IF Delayed(txId).executed THEN "Already executed"
  ELSE IF Delayed(txId).approved THEN "Already approved"
  ELSE ""

approveDelayedTransaction(caller, txId) ==
  LET err == approveDelayedTransactionError(caller, txId) IN
  IF err = ""
  THEN /\ delayedTransactions' = WriteDelayed(txId, [Delayed(txId) EXCEPT !.approved = TRUE, !.reviewer = caller])
       /\ UNCHANGED <<accountStatuses, accountDelayedTxs, enforcementEnabled>>
       /\ Done("approveDelayedTransaction", <<caller, txId>>)
       /\ UNCHANGED <<now, riskVars, oracleVars, monitorVars, nftVars>>
  ELSE Revert("approveDelayedTransaction", err)

executeDelayedTransactionError(txId) ==
  IF ~Delayed(txId).approved THEN "Not approved"
  ELSE IF Delayed(txId).executed THEN "Already executed"
  ELSE IF ~(now >= Delayed(txId).delayUntil) THEN "Still delayed"
  ELSE ""

executeDelayedTransaction(caller, txId) ==
  LET err == executeDelayedTransactionError(txId) IN
  IF err = ""
  THEN /\ delayedTransactions' = WriteDelayed(txId, [Delayed(txId) EXCEPT !.executed = TRUE])
       /\ UNCHANGED <<accountStatuses, accountDelayedTxs, enforcementEnabled>>
       /\ Done("executeDelayedTransaction", <<caller, txId>>)
       /\ UNCHANGED <<now, riskVars, oracleVars, monitorVars, nftVars>>
  ELSE Revert("executeDelayedTransaction", err)

setDailyLimit(caller, account, limit) ==
  IF caller \in Enforcement_ENFORCER_ROLE
  THEN /\ accountStatuses' = [accountStatuses EXCEPT ![account].dailyLimit = limit]
       /\ UNCHANGED <<delayedTransactions, accountDelayedTxs, enforcementEnabled>>
       /\ Done("setDailyLimit", <<caller, account, limit>>)
       /\ UNCHANGED <<now, riskVars, oracleVars, monitorVars, nftVars>>
  ELSE Revert("setDailyLimit", Unauthorized)

setEnforcementEnabled(caller, enabled) ==
  IF caller \in Enforcement_ADMIN_ROLE
  THEN /\ enforcementEnabled' = enabled
       /\ UNCHANGED <<accountStatuses, delayedTransactions, accountDelayedTxs>>
       /\ Done("setEnforcementEnabled", <<caller, enabled>>)
       /\ UNCHANGED <<now, riskVars, oracleVars, monitorVars, nftVars>>
  ELSE Revert("setEnforcementEnabled", Unauthorized)

\* status.dailySpent += amount is checked arithmetic
recordSpendingError(caller, account, amount) ==
  IF caller \notin Enforcement_ENFORCER_ROLE THEN Unauthorized
  ELSE IF ~windowElapsed(account) /\ accountStatuses[account].dailySpent + amount > UintMax THEN Overflow
  ELSE ""

\* recordSpending that starts a new window only after more than a day
recordSpending_StrictWindow(caller, account, amount) ==
  LET err == recordSpendingError(caller, account, amount) IN
  IF err = ""
  THEN /\ accountStatuses' = IF now > accountStatuses[account].lastResetTimestamp + OneDay
                             THEN [accountStatuses EXCEPT ![account].dailySpent = amount, ![account].lastResetTimestamp = now]
                             ELSE [accountStatuses EXCEPT ![account].dailySpent = @ + amount]
       /\ UNCHANGED <<delayedTransactions, accountDelayedTxs, enforcementEnabled>>
       /\ Done("recordSpending", <<caller, account, amount>>)
       /\ UNCHANGED <<now, riskVars, oracleVars, monitorVars, nftVars>>
  ELSE Revert("recordSpending", err)

recordSpending(caller, account, amount) ==
  LET err == recordSpendingError(caller, account, amount) IN
  IF err = ""
  THEN /\ accountStatuses' = IF windowElapsed(account)
                             THEN [accountStatuses EXCEPT ![account].dailySpent = amount, ![account].lastResetTimestamp = now]
                             ELSE [accountStatuses EXCEPT ![account].dailySpent = @ + amount]
       /\ UNCHANGED <<delayedTransactions, accountDelayedTxs, enforcementEnabled>>
       /\ Done("recordSpending", <<caller, account, amount>>)
       /\ UNCHANGED <<now, riskVars, oracleVars, monitorVars, nftVars>>
  ELSE Revert("recordSpending", err)

getAccountStatus(account) == accountStatuses[account]

getAccountDelayedTransactions(account) == accountDelayedTxs[account]

(***************************************************************************)
(* RegulatoryNFT                                                           *)
(***************************************************************************)
ReportTypes == {"SUSPICIOUS_ACTIVITY", "COMPLIANCE_AUDIT", "RISK_ASSESSMENT", "TRANSACTION_REVIEW", "KYC_VERIFICATION", "SANCTION_SCREENING"}
ReportStatuses == {"DRAFT", "SUBMITTED", "UNDER_REVIEW", "APPROVED", "REJECTED", "ARCHIVED"}

\* bytes32(0)
ZeroHash == "0x00"

NoReport == [tokenId |-> 0, reportType |-> "SUSPICIOUS_ACTIVITY", status |-> "DRAFT", subject |-> ZERO, issuer |-> ZERO,
             timestamp |-> 0, reviewTimestamp |-> 0, reviewer |-> ZERO, ipfsHash |-> "", dataHash |-> ZeroHash, isSealed |-> FALSE]

\* mapping(uint256 => ComplianceReport): unwritten keys read as the zero record
Report(tokenId) == IF tokenId \in DOMAIN reports THEN reports[tokenId] ELSE NoReport

WriteReport(tokenId, record) ==
  [k \in DOMAIN reports \cup {tokenId} |-> IF k = tokenId THEN record ELSE reports[k]]

\* ERC721 _ownerOf: the zero address for a token that was never minted
_ownerOf(tokenId) == IF tokenId \in DOMAIN owners THEN owners[tokenId] ELSE ZERO

_reportTypeToString(rType) ==
  IF rType = "SUSPICIOUS_ACTIVITY" THEN "SAR"
  ELSE IF rType = "COMPLIANCE_AUDIT" THEN "Compliance Audit"
  ELSE IF rType = "RISK_ASSESSMENT" THEN "Risk Assessment"
  ELSE IF rType = "TRANSACTION_REVIEW" THEN "Transaction Review"
  ELSE IF rType = "KYC_VERIFICATION" THEN "KYC Verification"
  ELSE IF rType = "SANCTION_SCREENING" THEN "Sanction Screening"
  ELSE "Unknown"

_reportStatusToString(status) ==
  IF status = "DRAFT" THEN "Draft"
  ELSE IF status = "SUBMITTED" THEN "Submitted"
  ELSE IF status = "UNDER_REVIEW" THEN "Under Review"
  ELSE IF status = "APPROVED" THEN "Approved"
  ELSE IF status = "REJECTED" THEN "Rejected"
  ELSE IF status = "ARCHIVED" THEN "Archived"
  ELSE "Unknown"

\* the metadata built from report: the parts the JSON text is concatenated from
_buildTokenURI(tokenId, report) ==
  <<tokenId, _reportTypeToString(report.reportType), _reportStatusToString(report.status),
    IF report.isSealed THEN "true" ELSE "false", report.ipfsHash>>

WriteTokenURI(tokenId, uri) ==
  [k \in DOMAIN tokenURIs \cup {tokenId} |-> IF k = tokenId THEN uri ELSE tokenURIs[k]]

createReportError(caller, subject, ipfsHash, dataHash) ==
  IF caller \notin NFT_COMPLIANCE_OFFICER_ROLE THEN Unauthorized
  ELSE IF subject = ZERO THEN "Invalid subject"
  ELSE IF ipfsHash = "" THEN "IPFS hash required"
  ELSE IF dataHash = ZeroHash THEN "Data hash required"
  ELSE ""

createReport(caller, reportType, subject, ipfsHash, dataHash) ==
  LET err == createReportError(caller, subject, ipfsHash, dataHash) IN
  /\ tokenIdCounter < MaxReports
  /\ IF err = ""
     THEN LET tokenId == tokenIdCounter + 1
              report == [tokenId |-> tokenId, reportType |-> reportType, status |-> "DRAFT", subject |-> subject, issuer |-> caller,
                         timestamp |-> now, reviewTimestamp |-> 0, reviewer |-> ZERO, ipfsHash |-> ipfsHash, dataHash |-> dataHash,
                         isSealed |-> FALSE]
          IN /\ tokenIdCounter' = tokenId
             /\ owners' = [k \in DOMAIN owners \cup {tokenId} |-> IF k = tokenId THEN caller ELSE owners[k]]
             /\ reports' = WriteReport(tokenId, report)
             /\ subjectReports' = [subjectReports EXCEPT ![subject] = Append(@, tokenId)]
             /\ issuerReports' = [issuerReports EXCEPT ![caller] = Append(@, tokenId)]
             /\ tokenURIs' = WriteTokenURI(tokenId, _buildTokenURI(tokenId, report))
             /\ Done("createReport", <<caller, reportType, subject, ipfsHash, dataHash>>)
             /\ UNCHANGED <<now, riskVars, oracleVars, monitorVars, enforcementVars>>
     ELSE Revert("createReport", err)

\* submitReport's checks as they would be without the status requirement
submitReportError_AnyStatus(caller, tokenId) ==
  IF _ownerOf(tokenId) = ZERO THEN "ERC721NonexistentToken"
  ELSE IF _ownerOf(tokenId) # caller THEN "Not report owner"
  ELSE IF Report(tokenId).isSealed THEN "Report is sealed"
  ELSE ""

\* ERC721 ownerOf reverts for a token that was never minted
submitReportError(caller, tokenId) ==
  IF _ownerOf(tokenId) = ZERO THEN "ERC721NonexistentToken"
  ELSE IF _ownerOf(tokenId) # caller THEN "Not report owner"
  ELSE IF Report(tokenId).status # "DRAFT" THEN "Report already submitted"
  ELSE IF Report(tokenId).isSealed THEN "Report is sealed"
  ELSE ""

submitReport(caller, tokenId) ==
  LET err == submitReportError(caller, tokenId) IN
  IF err = ""
  THEN /\ reports' = WriteReport(tokenId, [Report(tokenId) EXCEPT !.status = "SUBMITTED"])
       /\ UNCHANGED <<owners, subjectReports, issuerReports, tokenIdCounter, tokenURIs>>
       /\ Done("submitReport", <<caller, tokenId>>)
       /\ UNCHANGED <<now, riskVars, oracleVars, monitorVars, enforcementVars>>
  ELSE Revert("submitReport", err)

\* reviewReport's checks as they would be if a rejected report could be reviewed again
reviewReportError_Reopens(caller, tokenId) ==
  IF caller \notin NFT_AUDITOR_ROLE THEN Unauthorized
  ELSE IF Report(tokenId).status \notin {"SUBMITTED", "UNDER_REVIEW", "REJECTED"} THEN "Report not ready for review"
  ELSE IF Report(tokenId).isSealed THEN "Report is sealed"
  ELSE ""

reviewReportError(caller, tokenId) ==
  IF caller \notin NFT_AUDITOR_ROLE THEN Unauthorized
  ELSE IF Report(tokenId).status \notin {"SUBMITTED", "UNDER_REVIEW"} THEN "Report not ready for review"
  ELSE IF Report(tokenId).isSealed THEN "Report is sealed"
  ELSE ""

\* reviewReport that sets the status without recording who reviewed
reviewReport_Anonymous(caller, tokenId, approved) ==
  LET err == reviewReportError(caller, tokenId) IN
  IF err = ""
  THEN /\ reports' = WriteReport(tokenId, [Report(tokenId) EXCEPT
              !.status = IF approved THEN "APPROVED" ELSE "REJECTED",
              !.reviewTimestamp = now])
       /\ UNCHANGED <<owners, subjectReports, issuerReports, tokenIdCounter, tokenURIs>>
       /\ Done("reviewReport", <<caller, tokenId, approved>>)
       /\ UNCHANGED <<now, riskVars, oracleVars, monitorVars, enforcementVars>>
  ELSE Revert("reviewReport", err)

reviewReport(caller, tokenId, approved) ==
  LET err == reviewReportError(caller, tokenId) IN
  IF err = ""
  THEN /\ reports' = WriteReport(tokenId, [Report(tokenId) EXCEPT
              !.status = IF approved THEN "APPROVED" ELSE "REJECTED",
              !.reviewer = caller,
              !.reviewTimestamp = now])
       /\ UNCHANGED <<owners, subjectReports, issuerReports, tokenIdCounter, tokenURIs>>
       /\ Done("reviewReport", <<caller, tokenId, approved>>)
       /\ UNCHANGED <<now, riskVars, oracleVars, monitorVars, enforcementVars>>
  ELSE Revert("reviewReport", err)

\* sealReport's checks as they would be without the status requirement
sealReportError_AnyStatus(caller, tokenId) ==
  IF caller \notin NFT_AUDITOR_ROLE THEN Unauthorized
  ELSE IF Report(tokenId).isSealed THEN "Report already sealed"
  ELSE ""

sealReportError(caller, tokenId) ==
  IF caller \notin NFT_AUDITOR_ROLE THEN Unauthorized
  ELSE IF Report(tokenId).status # "APPROVED" THEN "Report must be approved"
  ELSE IF Report(tokenId).isSealed THEN "Report already sealed"
  ELSE ""

sealReport(caller, tokenId) ==
  LET err == sealReportError(caller, tokenId) IN
  IF err = ""
  THEN /\ reports' = WriteReport(tokenId, [Report(tokenId) EXCEPT !.isSealed = TRUE])
       /\ UNCHANGED <<owners, subjectReports, issuerReports, tokenIdCounter, tokenURIs>>
       /\ Done("sealReport", <<caller, tokenId>>)
       /\ UNCHANGED <<now, riskVars, oracleVars, monitorVars, enforcementVars>>
  ELSE Revert("sealReport", err)

\* updateReportData's checks as they would be without the seal requirement
updateReportDataError_IgnoresSeal(caller, tokenId, newIpfsHash) ==
  IF _ownerOf(tokenId) = ZERO THEN "ERC721NonexistentToken"
  ELSE IF _ownerOf(tokenId) # caller THEN "Not report owner"
  ELSE IF newIpfsHash = "" THEN "IPFS hash required"
  ELSE ""

updateReportDataError(caller, tokenId, newIpfsHash) ==
  IF _ownerOf(tokenId) = ZERO THEN "ERC721NonexistentToken"
  ELSE IF _ownerOf(tokenId) # caller THEN "Not report owner"
  ELSE IF Report(tokenId).isSealed THEN "Report is sealed"
  ELSE IF newIpfsHash = "" THEN "IPFS hash required"
  ELSE ""

\* updateReportData that sends the report back to DRAFT
updateReportData_Redrafts(caller, tokenId, newIpfsHash, newDataHash) ==
  LET err == updateReportDataError(caller, tokenId, newIpfsHash) IN
  IF err = ""
  THEN LET report == [Report(tokenId) EXCEPT !.ipfsHash = newIpfsHash, !.dataHash = newDataHash, !.status = "DRAFT"] IN
       /\ reports' = WriteReport(tokenId, report)
       /\ tokenURIs' = WriteTokenURI(tokenId, _buildTokenURI(tokenId, report))
       /\ UNCHANGED <<owners, subjectReports, issuerReports, tokenIdCounter>>
       /\ Done("updateReportData", <<caller, tokenId, newIpfsHash, newDataHash>>)
       /\ UNCHANGED <<now, riskVars, oracleVars, monitorVars, enforcementVars>>
  ELSE Revert("updateReportData", err)

updateReportData(caller, tokenId, newIpfsHash, newDataHash) ==
  LET err == updateReportDataError(caller, tokenId, newIpfsHash) IN
  IF err = ""
  THEN LET report == [Report(tokenId) EXCEPT !.ipfsHash = newIpfsHash, !.dataHash = newDataHash] IN
       /\ reports' = WriteReport(tokenId, report)
       /\ tokenURIs' = WriteTokenURI(tokenId, _buildTokenURI(tokenId, report))
       /\ UNCHANGED <<owners, subjectReports, issuerReports, tokenIdCounter>>
       /\ Done("updateReportData", <<caller, tokenId, newIpfsHash, newDataHash>>)
       /\ UNCHANGED <<now, riskVars, oracleVars, monitorVars, enforcementVars>>
  ELSE Revert("updateReportData", err)

\* keccak256 on the report data the model uses: distinct data, distinct digests
keccak256(data) ==
  CASE data = "d1" -> "0xd1"
    [] data = "d2" -> "0xd2"
    [] OTHER -> "0xff"

verifyReportData(tokenId, dataToVerify) == keccak256(dataToVerify) = Report(tokenId).dataHash

\* a call of the view function: it returns its answer and writes nothing
verifyReportDataCall(caller, tokenId, dataToVerify) ==
  /\ Done("verifyReportData", <<caller, tokenId, dataToVerify, verifyReportData(tokenId, dataToVerify)>>)
  /\ UNCHANGED <<now, stateVars>>

\* the token is an ordinary ERC721: its owner may hand it to another account
transferFromError(caller, to, tokenId) ==
  IF _ownerOf(tokenId) = ZERO THEN "ERC721NonexistentToken"
  ELSE IF _ownerOf(tokenId) # caller THEN "ERC721InsufficientApproval"
  ELSE IF to = ZERO THEN "ERC721InvalidReceiver"
  ELSE ""

transferFrom(caller, to, tokenId) ==
  LET err == transferFromError(caller, to, tokenId) IN
  IF err = ""
  THEN /\ owners' = [owners EXCEPT ![tokenId] = to]
       /\ UNCHANGED <<reports, subjectReports, issuerReports, tokenIdCounter, tokenURIs>>
       /\ Done("transferFrom", <<caller, to, tokenId>>)
       /\ UNCHANGED <<now, riskVars, oracleVars, monitorVars, enforcementVars>>
  ELSE Revert("transferFrom", err)

getSubjectReports(subject) == subjectReports[subject]

getIssuerReports(issuer) == issuerReports[issuer]

(***************************************************************************)
(* The environment: block.timestamp grows                                  *)
(***************************************************************************)
AdvanceTime ==
  /\ now < MaxTime
  /\ now' = now + 1
  /\ UNCHANGED <<last, stateVars>>

(***************************************************************************)
(* The state after the five constructors.  A chain's block.timestamp is    *)
(* far beyond one day, so the clock starts at OneDay.                      *)
(***************************************************************************)
Init ==
  /\ now = OneDay
  /\ last = [op |-> "constructor", ok |-> TRUE, args |-> <<>>, err |-> ""]
  /\ riskAssessments = [a \in Addresses |-> NoAssessment]
  /\ addressesByRisk = [l \in RiskLevels |-> <<>>]
  /\ totalAssessments = 0
  /\ sanctionedAddresses = [a \in Addresses |-> FALSE]
  /\ sanctionedJurisdictions = {}
  /\ dataSources = <<>>
  /\ dataSourceIds = <<>>
  /\ complianceChecks = [a \in Addresses |-> NoCheck]
  /\ transactionAnalyses = <<>>
  /\ addressTransactions = [a \in Addresses |-> <<>>]
  /\ alerts = <<>>
  /\ alertCounter = 0
  /\ flaggedTransactionCount = 0
  /\ highRiskThreshold = HighRiskThresholdInit
  /\ criticalRiskThreshold = CriticalRiskThresholdInit
  /\ accountStatuses = [a \in Addresses |-> NoStatus]
  /\ delayedTransactions = <<>>
  /\ accountDelayedTxs = [a \in Addresses |-> <<>>]
  /\ enforcementEnabled = TRUE
  /\ reports = <<>>
  /\ owners = <<>>
  /\ subjectReports = [a \in Addresses |-> <<>>]
  /\ issuerReports = [c \in Callers |-> <<>>]
  /\ tokenIdCounter = 0
  /\ tokenURIs = <<>>

(***************************************************************************)
(* Inputs                                                                  *)
(***************************************************************************)
Reasons == {"", "r"}

\* the boundaries of the score table, and one score out of range
ScoreInputs == {0, 9, 10, 39, 40, 69, 70, 89, 90, 100, 101}

\* scores an assessment is filed with: the ends of the range, one inside, one beyond
AssessScoreInputs == {0, 40, 100, 101}

\* the registered source ids, and one that was never registered
SourceIdInputs == DOMAIN dataSources \cup {NoSource}

(***************************************************************************)
(* The risk ledger and the sanction list, on one account                   *)
(***************************************************************************)
NextRisk ==
  \/ \E c \in Callers, t \in {ZERO, A1}, l \in RiskLevels, s \in AssessScoreInputs, r \in Reasons : assessRisk(c, t, l, s, r)
  \/ \E c \in Callers, s \in ScoreInputs : updateRiskScore(c, A1, s)
  \/ \E c \in Callers : clearRisk(c, A1)
  \/ \E c \in Callers : Len(dataSourceIds) < MaxSources /\ registerDataSource(c, "OFAC", "https://ofac.treasury.gov")
  \/ \E c \in Callers, t \in {ZERO, A1}, id \in SourceIdInputs, r \in Reasons : sanctionAddress(c, t, id, r)
  \/ \E c \in Callers : clearSanction(c, A1)

SpecRisk == Init /\ [][NextRisk]_vars

(***************************************************************************)
(* The decision function over two accounts: every rule of checkTransaction *)
(* can match for the sender and for the receiver.  The deployer calls.     *)
(***************************************************************************)
\* (level, score) pairs the risk oracle reports
AssessInputs == {<<"HIGH", 70>>, <<"CRITICAL", 90>>}

\* amounts a transfer is checked with
AmountInputs == {0, 10, 50, 95, 100, 1000, UintMax}

NextEnforcement ==
  \/ \E e \in BOOLEAN : setEnforcementEnabled(OWNER, e)
  \/ whitelistAccount(OWNER, A1)
  \/ removeFromWhitelist(OWNER, A1)
  \/ \E a \in Accounts : freezeAccount(OWNER, a, "r")
  \/ Len(dataSourceIds) < MaxSources /\ registerDataSource(OWNER, "OFAC", "https://ofac.treasury.gov")
  \/ \E a \in Accounts, id \in DOMAIN dataSources : sanctionAddress(OWNER, a, id, "r")
  \/ \E a \in Accounts, ls \in AssessInputs : assessRisk(OWNER, a, ls[1], ls[2], "r")
  \/ setDailyLimit(OWNER, A1, 100)
  \/ recordSpending(OWNER, A1, 1000)

SpecEnforcement == Init /\ [][NextEnforcement]_vars

(***************************************************************************)
(* The life of one sanctioned account A1 under every operation of the      *)
(* oracle, the registry, the monitor and the enforcement contract that can *)
(* touch it.                                                               *)
(***************************************************************************)
NextSanction ==
  \/ Len(dataSourceIds) < MaxSources /\ registerDataSource(OWNER, "OFAC", "https://ofac.treasury.gov")
  \/ \E id \in DOMAIN dataSources : sanctionAddress(OWNER, A1, id, "r")
  \/ \E c \in Callers, a \in Accounts : clearSanction(c, a)
  \/ \E id \in DOMAIN dataSources : performComplianceCheck(OWNER, A1, "US", FALSE, id)
  \/ sanctionJurisdiction(OWNER, "KP")
  \/ assessRisk(OWNER, A1, "LOW", 10, "r")
  \/ updateRiskScore(OWNER, A1, 10)
  \/ clearRisk(OWNER, A1)
  \/ analyzeTransaction(OWNER, "tx1", A1, A2, 10, "NORMAL", 80, "n")
  \/ \E e \in BOOLEAN : setEnforcementEnabled(OWNER, e)
  \/ whitelistAccount(OWNER, A1)
  \/ removeFromWhitelist(OWNER, A1)
  \/ freezeAccount(OWNER, A1, "r")
  \/ unfreezeAccount(OWNER, A1)
  \/ freezeAccount(OWNER, A2, "r")

SpecSanction == Init /\ [][NextSanction]_vars

(***************************************************************************)
(* The daily limit of one account A1 over time: limits are set, spending   *)
(* is recorded and the reset window elapses.                               *)
(***************************************************************************)
NextLimit ==
  \/ \E l \in {0, 100} : setDailyLimit(OWNER, A1, l)
  \/ \E x \in {95, 1000} : recordSpending(OWNER, A1, x)
  \/ \E x \in {10, 1000} : checkTransactionCall(USER, A1, A2, x)
  \/ freezeAccount(OWNER, A1, "r") \/ unfreezeAccount(OWNER, A1)
  \/ whitelistAccount(OWNER, A1)
  \/ removeFromWhitelist(OWNER, A1)
  \/ AdvanceTime

SpecLimit == Init /\ [][NextLimit]_vars

(***************************************************************************)
(* The life cycle of compliance reports: the officer and an outsider       *)
(* create, submit, review, seal, update and transfer them.                 *)
(***************************************************************************)
\* token ids the calls name: those minted and those not minted yet
TokenIdInputs == 1..MaxReports

\* content addresses an update carries
IpfsHashInputs == {"", "Qm2"}

NextAudit ==
  \/ \E c \in Callers : createReport(c, "SUSPICIOUS_ACTIVITY", A1, "Qm1", "0xd1")
  \/ \E c \in Callers, id \in TokenIdInputs : submitReport(c, id)
  \/ \E c \in Callers, id \in TokenIdInputs, approved \in BOOLEAN : reviewReport(c, id, approved)
  \/ \E c \in Callers, id \in TokenIdInputs : sealReport(c, id)
  \/ \E c \in Callers, id \in TokenIdInputs, h \in IpfsHashInputs : updateReportData(c, id, h, "0xd2")
  \/ \E c \in Callers : transferFrom(c, USER, 1)
  \/ \E d \in {"d1", "d2"} : verifyReportDataCall(USER, 1, d)

SpecAudit == Init /\ [][NextAudit]_vars

(***************************************************************************)
(* The review queue: one transfer from A1 to A2 is queued, approved and    *)
(* executed while time passes.  Ids are named by any caller, also ids of   *)
(* transfers that are not queued (yet).                                    *)
(***************************************************************************)
\* the ids a transfer of 10 from A1 to A2 gets, by the time it is queued
TxIdInputs == {DelayedTxId(A1, A2, 10, t) : t \in OneDay..MaxTime}

NextDelay ==
  \/ \E c \in Callers : createDelayedTransaction(c, A1, A2, 10, "0x")
  \/ \E c \in Callers, id \in TxIdInputs : approveDelayedTransaction(c, id)
  \/ \E c \in Callers, id \in TxIdInputs : executeDelayedTransaction(c, id)
  \/ AdvanceTime

SpecDelay == Init /\ [][NextDelay]_vars

(***************************************************************************)
(* The monitor folding its findings into the risk ledger: transfers from   *)
(* A1 (or from the zero address) to A2 are analysed, A2 may be sanctioned, *)
(* A1's assessment may be cleared, alerts are resolved.                    *)
(***************************************************************************)
\* anomaly scores: the least, one below the flagging threshold, the top, one beyond
FoldScoreInputs == {0, 69, 100, 101}

\* alert ids the calls name: those raised and those not raised yet
AlertIdInputs == 1..MaxAnalyses

NextFold ==
  \/ Len(dataSourceIds) < MaxSources /\ registerDataSource(OWNER, "OFAC", "https://ofac.treasury.gov")
  \/ \E t \in {ZERO, A2}, id \in SourceIdInputs, r \in Reasons : sanctionAddress(OWNER, t, id, r)
  \/ \E from \in {ZERO, A1}, p \in {"NORMAL", "MIXING"}, a \in FoldScoreInputs :
       analyzeTransaction(OWNER, "tx1", from, A2, 10, p, a, "n")
  \/ \E c \in Callers, id \in AlertIdInputs : resolveAlert(c, id)
  \/ clearRisk(OWNER, A1)

SpecFold == Init /\ [][NextFold]_vars

(***************************************************************************)
(* Every role-gated function of the five contracts, called with one fixed  *)
(* set of arguments by an account that holds no role, while the deployer   *)
(* (who holds every role) lists and lifts a sanction, queues and approves  *)
(* a delayed transaction, and files and submits a report.                  *)
(***************************************************************************)
NextRoles ==
  \/ assessRisk(USER, A1, "HIGH", 70, "r")
  \/ updateRiskScore(USER, A1, 10)
  \/ clearRisk(USER, A1)
  \/ \E c \in Callers : Len(dataSourceIds) < MaxSources /\ registerDataSource(c, "OFAC", "https://ofac.treasury.gov")
  \/ \E c \in Callers, id \in SourceIdInputs : sanctionAddress(c, A1, id, "r")
  \/ \E c \in Callers : clearSanction(c, A1)
  \/ performComplianceCheck(USER, A1, "US", FALSE, NoSource)
  \/ sanctionJurisdiction(USER, "KP")
  \/ analyzeTransaction(USER, "tx1", A1, A2, 10, "MIXING", 70, "n")
  \/ resolveAlert(USER, 1)
  \/ updateThresholds(USER, 60, 80)
  \/ setEnforcementEnabled(USER, FALSE)
  \/ freezeAccount(USER, A1, "r")
  \/ unfreezeAccount(USER, A1)
  \/ whitelistAccount(USER, A1)
  \/ removeFromWhitelist(USER, A1)
  \/ \E c \in Callers : createDelayedTransaction(c, A1, A2, 10, "0x")
  \/ \E c \in Callers : approveDelayedTransaction(c, DelayedTxId(A1, A2, 10, OneDay))
  \/ \E c \in Callers : executeDelayedTransaction(c, DelayedTxId(A1, A2, 10, OneDay))
  \/ recordSpending(USER, A1, 95)
  \/ \E c \in Callers : createReport(c, "SUSPICIOUS_ACTIVITY", A1, "Qm1", "0xd1")
  \/ submitReport(OWNER, 1)
  \/ reviewReport(USER, 1, TRUE)
  \/ sealReport(USER, 1)

SpecRoles == Init /\ [][NextRoles]_vars

(***************************************************************************)
(* The monitor grading transfers: every pattern with the least score,      *)
(* NORMAL transfers with scores around the fixed and the initial           *)
(* thresholds, patterns together with scores of a higher grade, a score    *)
(* out of range; the administrator moves the thresholds.                   *)
(***************************************************************************)
NextSeverity ==
  \/ \E p \in PatternTypes : analyzeTransaction(OWNER, "tx1", A1, A2, 10, p, 0, "n")
  \/ \E a \in {24, 25, 49, 50, 69, 70, 89, 90, 100, 101} :
       analyzeTransaction(OWNER, "tx1", A1, A2, 10, "NORMAL", a, "n")
  \/ \E i \in {<<"MIXING", 90>>, <<"RAPID_MOVEMENT", 70>>, <<"STRUCTURING", 50>>, <<"HIGH_VOLUME", 101>>} :
       analyzeTransaction(OWNER, "tx1", A1, A2, 10, i[1], i[2], "n")
  \/ \E t \in {<<60, 80>>, <<20, 30>>, <<80, 60>>, <<70, 70>>, <<90, 101>>, <<0, 100>>} :
       updateThresholds(OWNER, t[1], t[2])

SpecSeverity == Init /\ [][NextSeverity]_vars

(***************************************************************************)
(* Compliance checks of A1 against a registered or an unknown source, from *)
(* a plain or a sanctioned jurisdiction, as a politically exposed person   *)
(* or not, while A1 and the jurisdiction KP are put on the sanction lists. *)
(***************************************************************************)
NextCheck ==
  \/ Len(dataSourceIds) < MaxSources /\ registerDataSource(OWNER, "OFAC", "https://ofac.treasury.gov")
  \/ \E id \in DOMAIN dataSources : sanctionAddress(OWNER, A1, id, "r")
  \/ clearSanction(OWNER, A1)
  \/ sanctionJurisdiction(OWNER, "KP")
  \/ \E j \in {"US", "KP"}, isPEP \in BOOLEAN, id \in SourceIdInputs :
       performComplianceCheck(OWNER, A1, j, isPEP, id)
  \/ assessRisk(OWNER, A1, "LOW", 10, "r")

SpecCheck == Init /\ [][NextCheck]_vars

(***************************************************************************)
(* The list of data sources: registrations under an empty or a proper name *)
(* and either endpoint, at the same or at a later time, with compliance    *)
(* checks stamping the source they cite.                                   *)
(***************************************************************************)
NextSources ==
  \/ \E c \in Callers, n \in {"", "OFAC"}, e \in {"e1", "e2"} :
       Len(dataSourceIds) < MaxRegistrations /\ registerDataSource(c, n, e)
  \/ \E id \in SourceIdInputs : performComplianceCheck(OWNER, A1, "US", FALSE, id)
  \/ AdvanceTime

SpecSources == Init /\ [][NextSources]_vars

(***************************************************************************)
(* Every writer of a risk score on one account A1, with scores at and      *)
(* above the top of the range: direct assessments and score updates, the   *)
(* escalations of a sanction and of a compliance check, and the monitor's  *)
(* averaged fold-in.                                                       *)
(***************************************************************************)
NextScores ==
  \/ \E l \in {"LOW", "CRITICAL"}, s \in {100, 101} : assessRisk(OWNER, A1, l, s, "r")
  \/ \E s \in {0, 100, 101} : updateRiskScore(OWNER, A1, s)
  \/ clearRisk(OWNER, A1)
  \/ Len(dataSourceIds) < MaxSources /\ registerDataSource(OWNER, "OFAC", "https://ofac.treasury.gov")
  \/ \E id \in SourceIdInputs : sanctionAddress(OWNER, A1, id, "r")
  \/ \E isPEP \in BOOLEAN, id \in SourceIdInputs : performComplianceCheck(OWNER, A1, "US", isPEP, id)
  \/ \E p \in {"NORMAL", "MIXING"}, a \in {0, 99, 100, 101} :
       analyzeTransaction(OWNER, "tx1", A1, A2, 10, p, a, "n")

SpecScores == Init /\ [][NextScores]_vars

(***************************************************************************)
(* Check-then-record: spending of A1 is recorded only in a state in which  *)
(* checkTransaction allows the amount.  Enforcement stays enabled, A1 is   *)
(* never whitelisted and its limit stays the default; A1 may be frozen and *)
(* released, and time passes.                                              *)
(***************************************************************************)
NextDiscipline ==
  \/ \E x \in {5, 95, 1000} :
       /\ ~checkTransaction(A1, A2, x).reverted
       /\ checkTransaction(A1, A2, x).allowed
       /\ recordSpending(OWNER, A1, x)
  \/ \E x \in {5, 1000} : checkTransactionCall(USER, A1, A2, x)
  \/ freezeAccount(OWNER, A1, "r")
  \/ unfreezeAccount(OWNER, A1)
  \/ AdvanceTime

SpecDiscipline == Init /\ [][NextDiscipline]_vars

\* the most recent call was a successful op
Succeeded(op) == last.op = op /\ last.ok

\* the most recent call was op and it reverted
Failed(op) == last.op = op /\ ~last.ok

(***************************************************************************)
(* C4.  Right after a successful sanctionAddress(account, sourceId,        *)
(* reason) the sanction flag of account is set, getRiskLevel(account) is   *)
(* CRITICAL and getRiskScore(account) is 100, whatever the assessment of   *)
(* the account was before.                                                 *)
(***************************************************************************)
C4_SanctionForcesCritical ==
  Succeeded("sanctionAddress") =>
    LET account == last.args[2] IN
    /\ isSanctioned(account)
    /\ getRiskLevel(account) = "CRITICAL"
    /\ getRiskScore(account) = 100

\* an account assessed LOW before has just been sanctioned
C4_Witness ==
  /\ Succeeded("sanctionAddress")
  /\ addressesByRisk["LOW"] = <<last.args[2]>>
  /\ getRiskScore(last.args[2]) = 100

(***************************************************************************)
(* C6.  Score round trip: after a successful assessRisk(account, level,    *)
(* s, reason), s is in 0..100, the reason is not empty, getRiskScore(      *)
(* account) = s and the assessment is active, whatever the account's       *)
(* state was before.                                                       *)
(***************************************************************************)
C6_ScoreRoundTrip ==
  Succeeded("assessRisk") =>
    LET account == last.args[2]
        s == last.args[4]
    IN /\ s \in 0..100
       /\ last.args[5] # ""
       /\ getRiskScore(account) = s
       /\ riskAssessments[account].active

\* the second assessment of an account, with another score than its first
C6_Witness ==
  /\ Succeeded("assessRisk")
  /\ last.args[4] = 40
  /\ Len(addressesByRisk["CRITICAL"]) = 1
  /\ Len(addressesByRisk["MEDIUM"]) = 1
  /\ getRiskScore(last.args[2]) = 40

(***************************************************************************)
(* C7.  Score/level consistency: in every reachable state the level of     *)
(* every active assessment is the table value of its score (>= 90          *)
(* CRITICAL, >= 70 HIGH, >= 40 MEDIUM, >= 10 LOW, else NONE).              *)
(***************************************************************************)
C7_ScoreLevelConsistent ==
  \A a \in Addresses : riskAssessments[a].active => getRiskLevel(a) = _scoreToLevel(getRiskScore(a))

(***************************************************************************)
(* The rule list of checkTransaction as the documentation gives it: the    *)
(* condition of each rule read from the contracts' state, and the result   *)
(* each rule prescribes.                                                   *)
(***************************************************************************)
\* the sender's daily limit would be exceeded by amount
LimitWouldBeExceeded(from, amount) ==
  LET st == accountStatuses[from]
      limit == IF st.dailyLimit > 0 THEN st.dailyLimit ELSE defaultDailyLimit
  IN IF now < st.lastResetTimestamp + OneDay
     THEN st.dailySpent + amount > limit
     ELSE amount > limit

RuleMatches(from, to, amount) ==
  << ~enforcementEnabled,
     accountStatuses[from].whitelisted,
     accountStatuses[from].frozen,
     accountStatuses[to].frozen,
     sanctionedAddresses[from],
     sanctionedAddresses[to],
     riskAssessments[from].active /\ riskAssessments[from].level = "CRITICAL",
     riskAssessments[to].active /\ riskAssessments[to].level = "CRITICAL",
     riskAssessments[from].active /\ riskAssessments[from].level = "HIGH",
     LimitWouldBeExceeded(from, amount),
     TRUE >>

RuleResult ==
  << <<TRUE, "NONE">>, <<TRUE, "NONE">>, <<FALSE, "FREEZE">>, <<FALSE, "BLOCK">>,
     <<FALSE, "FREEZE">>, <<FALSE, "BLOCK">>, <<FALSE, "FREEZE">>, <<FALSE, "BLOCK">>,
     <<FALSE, "DELAY">>, <<FALSE, "LIMIT">>, <<TRUE, "NONE">> >>

FirstMatchingRule(from, to, amount) ==
  LET m == RuleMatches(from, to, amount)
  IN CHOOSE i \in 1..11 : m[i] /\ \A j \in 1..(i - 1) : ~m[j]

\* the call returned (allowed, action)
Returned(r, allowed, action) == ~r.reverted /\ r.allowed = allowed /\ r.action = action

\* C1: in every state and for every sender, receiver and amount,
\* checkTransaction returns the result of the first rule of the fixed list
\* (1) disabled, (2) sender whitelisted, (3) sender frozen, (4) receiver
\* frozen, (5) sender sanctioned, (6) receiver sanctioned, (7) sender
\* CRITICAL, (8) receiver CRITICAL, (9) sender HIGH, (10) daily limit would
\* be exceeded, (11) otherwise, whose condition holds.
C1_FirstMatchingRule ==
  \A from \in Accounts, to \in Accounts, amount \in AmountInputs :
    LET res == RuleResult[FirstMatchingRule(from, to, amount)]
    IN Returned(checkTransaction(from, to, amount), res[1], res[2])

\* C1, for the calls that return: whenever checkTransaction does not end in
\* an arithmetic panic, its result is that of the first matching rule.
C1_FirstMatchingRuleWhenReturning ==
  \A from \in Accounts, to \in Accounts, amount \in AmountInputs :
    LET res == RuleResult[FirstMatchingRule(from, to, amount)]
        r == checkTransaction(from, to, amount)
    IN ~r.reverted => Returned(r, res[1], res[2])

\* C2: while enforcement is enabled, a transfer from a whitelisted sender
\* returns (true, NONE, "Whitelisted") for every receiver and amount,
\* whatever the frozen, sanction and risk state of either side and whatever
\* the limit.
C2_WhitelistOverrides ==
  \A from \in Accounts, to \in Accounts, amount \in AmountInputs :
    (enforcementEnabled /\ accountStatuses[from].whitelisted)
      => checkTransaction(from, to, amount) = Verdict(TRUE, "NONE", "Whitelisted")

\* C2 witness: a whitelisted sender that is frozen, sanctioned and CRITICAL,
\* with the default limit exceeded, is still allowed.
C2_Witness ==
  /\ enforcementEnabled
  /\ accountStatuses[A1].whitelisted
  /\ accountStatuses[A1].frozen
  /\ isSanctioned(A1)
  /\ getRiskLevel(A1) = "CRITICAL"
  /\ accountStatuses[A2].frozen
  /\ LimitWouldBeExceeded(A1, UintMax)
  /\ checkTransaction(A1, A2, UintMax) = Verdict(TRUE, "NONE", "Whitelisted")

\* C3 as documented, read with enforcement enabled: while an account is
\* frozen, every checkTransaction from it returns (false, FREEZE), for every
\* receiver and amount, whether or not it was whitelisted before the freeze.
C3_FrozenAlwaysDenied ==
  \A from \in Accounts, to \in Accounts, amount \in AmountInputs :
    (accountStatuses[from].frozen /\ enforcementEnabled)
      => Returned(checkTransaction(from, to, amount), FALSE, "FREEZE")

\* C3 as the code has it: a successful freezeAccount(A, reason) raises the
\* frozen flag of A, and while A is frozen, enforcement is enabled and A is
\* not whitelisted, every checkTransaction(A, B, x) returns (false, FREEZE).
C3_FrozenDeniedUnlessWhitelisted ==
  /\ Succeeded("freezeAccount") => accountStatuses[last.args[2]].frozen
  /\ \A from \in Accounts, to \in Accounts, amount \in AmountInputs :
       (accountStatuses[from].frozen /\ enforcementEnabled /\ ~accountStatuses[from].whitelisted)
         => Returned(checkTransaction(from, to, amount), FALSE, "FREEZE")

\* C3 witness: A1 was whitelisted, frozen, and then taken off the whitelist.
C3_Witness ==
  /\ Succeeded("removeFromWhitelist")
  /\ accountStatuses[A1].frozen
  /\ accountStatuses[A1].freezeReason = "r"
  /\ enforcementEnabled
  /\ ~accountStatuses[A1].whitelisted
  /\ Returned(checkTransaction(A1, A2, 10), FALSE, "FREEZE")

\* a transfer from account is denied for every receiver and amount
DeniedAsSender(account) ==
  \A to \in Accounts, amount \in AmountInputs :
    LET r == checkTransaction(account, to, amount) IN ~r.reverted /\ ~r.allowed

\* C5: the sanction flag of an account stays set across every operation
\* other than a successful clearSanction of that account, and while it is
\* set, enforcement is enabled and the account is not whitelisted, every
\* transfer from the account is denied.
C5_SanctionPersists ==
  /\ [](\A a \in Accounts :
          (isSanctioned(a) /\ enforcementEnabled /\ ~accountStatuses[a].whitelisted) => DeniedAsSender(a))
  /\ [][\A a \in Accounts :
          (sanctionedAddresses[a] /\ ~sanctionedAddresses'[a])
            => (last'.op = "clearSanction" /\ last'.ok /\ last'.args[2] = a)]_vars

\* C5 witness: A1 was sanctioned, its risk assessment was cleared afterwards,
\* and the transfer is still denied on the sanction rule alone.
C5_Witness ==
  /\ Succeeded("clearRisk")
  /\ last.args[2] = A1
  /\ isSanctioned(A1)
  /\ getRiskLevel(A1) = "NONE"
  /\ enforcementEnabled
  /\ ~accountStatuses[A1].whitelisted
  /\ ~accountStatuses[A1].frozen
  /\ checkTransaction(A1, A2, 10) = Verdict(FALSE, "FREEZE", "Sender sanctioned")

\* C8: when no earlier rule matches, checkTransaction(A, B, x) is denied
\* with LIMIT exactly when the window is open and dailySpent + x exceeds the
\* effective limit, or the window has elapsed and x alone exceeds it.
C8_DailyLimitDecision ==
  \A from \in Accounts, to \in Accounts, amount \in AmountInputs :
    (\A i \in 1..9 : ~RuleMatches(from, to, amount)[i])
      => (Returned(checkTransaction(from, to, amount), FALSE, "LIMIT") <=> LimitWouldBeExceeded(from, amount))

\* C8, for the calls that return: whenever checkTransaction does not end in
\* an arithmetic panic and no earlier rule matches, it denies with LIMIT
\* exactly when the limit would be exceeded, and allows otherwise.
C8_DailyLimitDecisionWhenReturning ==
  \A from \in Accounts, to \in Accounts, amount \in AmountInputs :
    LET r == checkTransaction(from, to, amount) IN
    ((\A i \in 1..9 : ~RuleMatches(from, to, amount)[i]) /\ ~r.reverted)
      => IF LimitWouldBeExceeded(from, amount)
         THEN Returned(r, FALSE, "LIMIT")
         ELSE Returned(r, TRUE, "NONE")

\* C8, the documented example within the window: limit 100, 95 recorded,
\* a check for 10 is denied with LIMIT.
C8_ExampleDenied ==
  /\ Succeeded("recordSpending")
  /\ accountStatuses[A1].dailyLimit = 100
  /\ accountStatuses[A1].dailySpent = 95
  /\ now < accountStatuses[A1].lastResetTimestamp + OneDay
  /\ checkTransaction(A1, A2, 10) = Verdict(FALSE, "LIMIT", "Daily limit exceeded")

\* C8, the documented example after the window: the same check is allowed.
C8_ExampleAllowed ==
  /\ accountStatuses[A1].dailyLimit = 100
  /\ accountStatuses[A1].dailySpent = 95
  /\ now >= accountStatuses[A1].lastResetTimestamp + OneDay
  /\ ~accountStatuses[A1].whitelisted
  /\ checkTransaction(A1, A2, 10) = Verdict(TRUE, "NONE", "")

\* C9: a sealReport call succeeds only on a report that is APPROVED and not
\* yet sealed, and then leaves it sealed and APPROVED; on a report in any
\* other state (DRAFT, SUBMITTED, REJECTED, already sealed) the call fails
\* and no report changes.
C9_SealOnlyFromApproved ==
  [][\A c \in Callers, id \in TokenIdInputs :
       sealReport(c, id) =>
         /\ last'.ok => /\ Report(id).status = "APPROVED"
                        /\ ~Report(id).isSealed
                        /\ reports'[id] = [Report(id) EXCEPT !.isSealed = TRUE]
         /\ (Report(id).status # "APPROVED" \/ Report(id).isSealed)
              => (~last'.ok /\ reports' = reports)]_vars

\* C9 witness: a report created, submitted, approved and sealed.
C9_Witness ==
  /\ Succeeded("sealReport")
  /\ Report(last.args[2]).isSealed
  /\ Report(last.args[2]).status = "APPROVED"
  /\ Report(last.args[2]).reviewer = OWNER
  /\ Report(last.args[2]).issuer = OWNER

\* C10: a sealed report never changes in any field again, and every
\* submitReport, reviewReport, sealReport and updateReportData naming it
\* fails.
C10_SealedIsImmutable ==
  [][\A id \in TokenIdInputs :
       Report(id).isSealed =>
         /\ id \in DOMAIN reports' /\ reports'[id] = reports[id]
         /\ \A c \in Callers :
              /\ submitReport(c, id) => ~last'.ok
              /\ sealReport(c, id) => ~last'.ok
              /\ \A approved \in BOOLEAN : reviewReport(c, id, approved) => ~last'.ok
              /\ \A h \in IpfsHashInputs : updateReportData(c, id, h, "0xd2") => ~last'.ok]_vars

\* C10 witness: the owner of a sealed report tried to update it and failed.
C10_Witness ==
  /\ Failed("updateReportData")
  /\ last.err = "Report is sealed"
  /\ \E id \in DOMAIN reports : reports[id].isSealed /\ reports[id].ipfsHash = "Qm1"

\* C11: for every delayed transaction id, executeDelayedTransaction succeeds
\* exactly when the record is approved, now >= delayUntil and it was not
\* executed before (so it fails while not approved and while still delayed),
\* and it succeeds at most once: an executed record stays executed.
C11_ExecuteOnce ==
  [][\A id \in TxIdInputs :
       /\ \A c \in Callers :
            executeDelayedTransaction(c, id) =>
              (last'.ok <=> (Delayed(id).approved /\ now >= Delayed(id).delayUntil /\ ~Delayed(id).executed))
       /\ Delayed(id).executed => Delayed(id)'.executed]_vars

\* C11, the guards alone: a call of executeDelayedTransaction succeeds
\* exactly when the record is approved, due and not marked executed, and
\* then marks it executed.
C11_ExecuteGuards ==
  [][\A id \in TxIdInputs, c \in Callers :
       executeDelayedTransaction(c, id) =>
         /\ last'.ok <=> (Delayed(id).approved /\ now >= Delayed(id).delayUntil /\ ~Delayed(id).executed)
         /\ last'.ok => Delayed(id)'.executed]_vars

\* C11: a queued transfer was approved, waited for and executed by an outsider.
C11_Executed ==
  /\ Succeeded("executeDelayedTransaction")
  /\ last.args[1] = USER
  /\ Delayed(last.args[2]).from = A1
  /\ Delayed(last.args[2]).executed
  /\ now >= Delayed(last.args[2]).delayUntil

\* C12: resolving is one-way: resolveAlert on a resolved alert fails, and
\* for every alert id, once resolved is true it is true in every later
\* state, whatever analyses and alerts follow.
C12_ResolvedForGood ==
  [][\A id \in AlertIdInputs :
       Alert(id).resolved =>
         /\ \A c \in Callers : resolveAlert(c, id) => ~last'.ok
         /\ Alert(id)'.resolved]_vars

\* C12, the guard alone: resolveAlert on a resolved alert fails and changes
\* nothing.
C12_ResolveTwiceFails ==
  [][\A id \in AlertIdInputs, c \in Callers :
       (Alert(id).resolved /\ resolveAlert(c, id)) => (~last'.ok /\ alerts' = alerts)]_vars

\* C12: an alert raised by an analysis was resolved, and a second resolve
\* was rejected.
C12_Resolved ==
  /\ Failed("resolveAlert")
  /\ last.err = "Alert already resolved"
  /\ alertCounter = 1
  /\ Alert(1).resolved
  /\ Alert(1).target = A1

\* C13: a rejected mutation leaves the whole state as it was, across the
\* contracts too: sanctionAddress with a source that is not active, with the
\* zero account, or with an empty reason (refused by the nested assessRisk)
\* fails and changes nothing, the sanction flag and the risk ledger
\* included; a flagged analyzeTransaction whose nested risk write is refused
\* (sender zero) fails and leaves no analysis, alert or counter behind.
C13_RejectedLeavesState ==
  [][/\ \A t \in {ZERO, A2}, id \in SourceIdInputs, r \in Reasons :
          (last'.op = "sanctionAddress" /\ (t = ZERO \/ ~DataSource(id).active \/ r = "") /\ sanctionAddress(OWNER, t, id, r))
            => (~last'.ok /\ stateVars' = stateVars)
     /\ \A p \in {"NORMAL", "MIXING"}, a \in FoldScoreInputs :
          (last'.op = "analyzeTransaction" /\ isFlagged(a, p) /\ analyzeTransaction(OWNER, "tx1", ZERO, A2, 10, p, a, "n"))
            => (~last'.ok /\ stateVars' = stateVars)]_vars

\* C13: sanctionAddress with an active source and a real account was
\* refused by the nested assessRisk, and the account is not sanctioned.
C13_NestedRejected ==
  /\ Failed("sanctionAddress")
  /\ last.err = "Reason required"
  /\ dataSourceIds # <<>>
  /\ ~sanctionedAddresses[A2]
  /\ ~riskAssessments[A2].active

\* the step is a call refused for want of a role, and it changed nothing
RejectedForRole == ~last'.ok /\ last'.err = Unauthorized /\ stateVars' = stateVars

\* the delayed transaction the role calls name
RolesTxId == DelayedTxId(A1, A2, 10, OneDay)

\* C14: a caller without the role a function requires never changes state
\* through it: the call fails and every state variable is as before
\* (risk assessor: assessRisk, updateRiskScore; auditor: clearRisk,
\* reviewReport, sealReport; data updater: sanctionAddress,
\* performComplianceCheck, sanctionJurisdiction; validator: clearSanction;
\* administrator: registerDataSource, updateThresholds,
\* setEnforcementEnabled; scoring oracle: analyzeTransaction; monitor
\* operator: resolveAlert; enforcer: freezeAccount, unfreezeAccount,
\* createDelayedTransaction, approveDelayedTransaction, recordSpending;
\* whitelist manager: whitelistAccount, removeFromWhitelist; compliance
\* officer: createReport).  executeDelayedTransaction is refused to nobody
\* for want of a role: it succeeds for any caller once its guards hold.
C14_RoleGating ==
  [][/\ \A c \in Callers \ Registry_ORACLE_ROLE :
          (assessRisk(c, A1, "HIGH", 70, "r") \/ updateRiskScore(c, A1, 10)) => RejectedForRole
     /\ \A c \in Callers \ Registry_AUDITOR_ROLE : clearRisk(c, A1) => RejectedForRole
     /\ \A c \in Callers \ NFT_AUDITOR_ROLE :
          (reviewReport(c, 1, TRUE) \/ sealReport(c, 1)) => RejectedForRole
     /\ \A c \in Callers \ Oracle_UPDATER_ROLE :
          \/ \E id \in SourceIdInputs : sanctionAddress(c, A1, id, "r")
          \/ performComplianceCheck(c, A1, "US", FALSE, NoSource)
          \/ sanctionJurisdiction(c, "KP")
          => RejectedForRole
     /\ \A c \in Callers \ Oracle_VALIDATOR_ROLE : clearSanction(c, A1) => RejectedForRole
     /\ \A c \in Callers \ Oracle_ADMIN_ROLE :
          registerDataSource(c, "OFAC", "https://ofac.treasury.gov") => RejectedForRole
     /\ \A c \in Callers \ Monitor_ADMIN_ROLE : updateThresholds(c, 60, 80) => RejectedForRole
     /\ \A c \in Callers \ Enforcement_ADMIN_ROLE : setEnforcementEnabled(c, FALSE) => RejectedForRole
     /\ \A c \in Callers \ Monitor_AI_ORACLE_ROLE :
          analyzeTransaction(c, "tx1", A1, A2, 10, "MIXING", 70, "n") => RejectedForRole
     /\ \A c \in Callers \ Monitor_MONITOR_ROLE : resolveAlert(c, 1) => RejectedForRole
     /\ \A c \in Callers \ Enforcement_ENFORCER_ROLE :
          \/ freezeAccount(c, A1, "r")
          \/ unfreezeAccount(c, A1)
          \/ createDelayedTransaction(c, A1, A2, 10, "0x")
          \/ approveDelayedTransaction(c, RolesTxId)
          \/ recordSpending(c, A1, 95)
          => RejectedForRole
     /\ \A c \in Callers \ Enforcement_WHITELIST_MANAGER_ROLE :
          (whitelistAccount(c, A1) \/ removeFromWhitelist(c, A1)) => RejectedForRole
     /\ \A c \in Callers \ NFT_COMPLIANCE_OFFICER_ROLE :
          createReport(c, "SUSPICIOUS_ACTIVITY", A1, "Qm1", "0xd1") => RejectedForRole
     /\ \A c \in Callers :
          executeDelayedTransaction(c, RolesTxId) =>
            /\ last'.err # Unauthorized
            /\ (Delayed(RolesTxId).approved /\ ~Delayed(RolesTxId).executed /\ now >= Delayed(RolesTxId).delayUntil)
                 => last'.ok]_vars

\* C14: an account holding no role asked to lift the sanction on a
\* sanctioned account and was refused.
C14_OutsiderRefused ==
  /\ Failed("clearSanction")
  /\ last.err = Unauthorized
  /\ sanctionedAddresses[A1]
  /\ riskAssessments[A1].level = "CRITICAL"

\* enum ReportStatus, by position
StatusRank(status) ==
  CASE status = "DRAFT" -> 0
    [] status = "SUBMITTED" -> 1
    [] status = "UNDER_REVIEW" -> 2
    [] status = "APPROVED" -> 3
    [] status = "REJECTED" -> 4
    [] status = "ARCHIVED" -> 5

\* C15: a report's status only moves forward: createReport yields a DRAFT
\* report; submitReport succeeds only for the owner of an unsealed DRAFT
\* report and makes it SUBMITTED; reviewReport succeeds only on an unsealed
\* SUBMITTED or UNDER_REVIEW report and makes it APPROVED or REJECTED; no
\* step takes the status of any report to an earlier stage.
C15_StatusForward ==
  [][/\ (last'.op = "createReport" /\ last'.ok /\ tokenIdCounter' # tokenIdCounter)
          => (tokenIdCounter' \notin DOMAIN reports /\ reports'[tokenIdCounter'].status = "DRAFT")
     /\ (last'.op = "submitReport" /\ last'.ok /\ reports' # reports)
          => LET c == last'.args[1]
                 id == last'.args[2]
             IN /\ _ownerOf(id) = c
                /\ Report(id).status = "DRAFT"
                /\ ~Report(id).isSealed
                /\ reports'[id].status = "SUBMITTED"
     /\ (last'.op = "reviewReport" /\ last'.ok /\ reports' # reports)
          => LET id == last'.args[2]
                 approved == last'.args[3]
             IN /\ Report(id).status \in {"SUBMITTED", "UNDER_REVIEW"}
                /\ ~Report(id).isSealed
                /\ reports'[id].status = (IF approved THEN "APPROVED" ELSE "REJECTED")
     /\ \A id \in DOMAIN reports :
          /\ id \in DOMAIN reports'
          /\ StatusRank(reports'[id].status) >= StatusRank(reports[id].status)]_vars

\* C15: a report went from DRAFT through SUBMITTED to REJECTED.
C15_Rejected ==
  /\ Succeeded("reviewReport")
  /\ ~last.args[3]
  /\ Report(last.args[2]).status = "REJECTED"
  /\ Report(last.args[2]).reviewer = OWNER

\* C16: checkTransaction is a pure function of the state and the time: a
\* call of it changes no state (not dailySpent, not lastResetTimestamp, also
\* when the window has elapsed), the same arguments on the same state at the
\* same time give the same answer, and dailySpent and lastResetTimestamp
\* change only in a successful recordSpending.
C16_CheckIsPure ==
  [][/\ \A x \in {10, 1000} :
          checkTransactionCall(USER, A1, A2, x)
            => /\ stateVars' = stateVars
               /\ now' = now
               /\ checkTransaction(A1, A2, x)' = checkTransaction(A1, A2, x)
     /\ \A a \in Addresses :
          (\/ accountStatuses'[a].dailySpent # accountStatuses[a].dailySpent
           \/ accountStatuses'[a].lastResetTimestamp # accountStatuses[a].lastResetTimestamp)
            => (last'.op = "recordSpending" /\ last'.ok /\ last'.args[2] = a)]_vars

\* C16: checkTransaction was called for a sender whose window has elapsed
\* with spending on record, and the record still stands.
C16_CheckedAfterWindow ==
  /\ Succeeded("checkTransaction")
  /\ last.args[2] = A1
  /\ accountStatuses[A1].dailySpent = 95
  /\ windowElapsed(A1)
  /\ ~accountStatuses[A1].whitelisted

\* C17: recordSpending(A, x) follows the rollover rule of the limit check:
\* when now >= lastResetTimestamp[A] + 1 day it sets dailySpent[A] = x and
\* lastResetTimestamp[A] = now, and the limit test at that moment compares
\* the amount alone; otherwise it adds x to dailySpent[A], leaves
\* lastResetTimestamp[A] as it is, and the limit test compares dailySpent
\* plus the amount.  The call is refused only when the sum does not fit the
\* word, and then nothing changes.
C17_RecordFollowsWindow ==
  [][\A x \in {95, 1000} :
       recordSpending(OWNER, A1, x) =>
         LET old == accountStatuses[A1]
             elapsed == now >= old.lastResetTimestamp + OneDay
         IN /\ last'.ok <=> (elapsed \/ old.dailySpent + x <= UintMax)
            /\ ~last'.ok => accountStatuses' = accountStatuses
            /\ (last'.ok /\ elapsed)
                 => /\ accountStatuses' = [accountStatuses EXCEPT ![A1] = [old EXCEPT !.dailySpent = x, !.lastResetTimestamp = now]]
                    /\ \A y \in {10, 95} : _checkDailyLimit(A1, y) <=> (y > effectiveLimit(A1))
            /\ (last'.ok /\ ~elapsed)
                 => /\ accountStatuses' = [accountStatuses EXCEPT ![A1] = [old EXCEPT !.dailySpent = old.dailySpent + x]]
                    /\ \A y \in {10, 95} : _checkDailyLimit(A1, y) <=> (old.dailySpent + y > effectiveLimit(A1))]_vars

\* C17: two spendings were recorded in one window, the second half a day
\* after the first.
C17_AddedWithinWindow ==
  /\ Succeeded("recordSpending")
  /\ accountStatuses[A1].dailySpent = 190
  /\ accountStatuses[A1].lastResetTimestamp = now - 1

\* the precedence table of severities, highest first
SeverityTable(pattern, score, high, critical) ==
  CASE pattern = "SANCTION_INTERACTION" \/ score >= critical -> "CRITICAL"
    [] OTHER -> CASE pattern = "MIXING" \/ score >= high -> "HIGH"
                  [] OTHER -> CASE pattern = "RAPID_MOVEMENT" \/ score >= 50 -> "MEDIUM"
                                [] OTHER -> CASE pattern # "NORMAL" \/ score >= 25 -> "LOW"
                                              [] OTHER -> "INFO"

\* C18: with the thresholds current at the call, for every pattern and
\* every anomaly score in 0..100 the severity analyzeTransaction computes is
\* the one the precedence table gives; the analysis a successful call leaves
\* stored carries that severity and flagged = (score >= highThreshold or
\* pattern # NORMAL); and a call with a score above 100 fails.
C18_SeverityByTable ==
  /\ \A p \in PatternTypes, a \in 0..100 :
       _calculateSeverity(a, p) = SeverityTable(p, a, highRiskThreshold, criticalRiskThreshold)
  /\ Succeeded("analyzeTransaction") =>
       LET pattern == last.args[6]
           score == last.args[7]
           stored == transactionAnalyses[last.args[2]]
       IN /\ score <= 100
          /\ stored.pattern = pattern
          /\ stored.anomalyScore = score
          /\ stored.severity = SeverityTable(pattern, score, highRiskThreshold, criticalRiskThreshold)
          /\ stored.flagged <=> (score >= highRiskThreshold \/ pattern # "NORMAL")
  /\ Failed("analyzeTransaction") => last.err = "Invalid anomaly score"

\* C18: after the thresholds were moved to 60 and 80, a NORMAL transfer
\* with score 69 was graded HIGH and flagged.
C18_GradedByCurrentThresholds ==
  /\ Succeeded("analyzeTransaction")
  /\ highRiskThreshold = 60
  /\ last.args[6] = "NORMAL"
  /\ last.args[7] = 69
  /\ transactionAnalyses[last.args[2]].severity = "HIGH"
  /\ transactionAnalyses[last.args[2]].flagged

\* C19: the damped fold-in: a flagged analyzeTransaction with sender S,
\* anomaly score a and a receiver that is not sanctioned leaves S with an
\* active assessment whose score is floor((c + a) / 2), c being S's score
\* before the call (0 without an active assessment), and whose level is the
\* ledger's table value of that score; an unflagged analyzeTransaction
\* leaves the risk ledger as it was.
C19_DampedFoldIn ==
  [][(last'.op = "analyzeTransaction" /\ last'.ok /\ addressTransactions' # addressTransactions) =>
       LET S == last'.args[3]
           to == last'.args[4]
           pattern == last'.args[6]
           a == last'.args[7]
           c == IF riskAssessments[S].active THEN riskAssessments[S].score ELSE 0
           flagged == a >= highRiskThreshold \/ pattern # "NORMAL"
       IN /\ (flagged /\ ~sanctionedAddresses[to]) =>
               /\ riskAssessments'[S].active
               /\ riskAssessments'[S].score = (c + a) \div 2
               /\ riskAssessments'[S].level = _scoreToLevel((c + a) \div 2)
          /\ ~flagged => riskVars' = riskVars]_vars

\* C19: a second flagged transfer with score 69 took the sender from 34 to
\* 51, the half of 103 rounded down.
C19_RoundedDown ==
  /\ Succeeded("analyzeTransaction")
  /\ last.args[3] = A1
  /\ last.args[7] = 69
  /\ ~sanctionedAddresses[A2]
  /\ riskAssessments[A1].active
  /\ riskAssessments[A1].score = 51
  /\ riskAssessments[A1].level = "MEDIUM"

\* C20: when a flagged analyzeTransaction has a receiver whose sanction
\* flag is set, the forced write comes last and wins: after the call the
\* sender's assessment is the forced one, getRiskLevel is CRITICAL and
\* getRiskScore is 100 whatever the average was, and no state a later call
\* reads holds the averaged value.
C20_ForcedWriteWins ==
  [][(last'.op = "analyzeTransaction" /\ last'.ok /\ addressTransactions' # addressTransactions) =>
       LET S == last'.args[3]
           to == last'.args[4]
           pattern == last'.args[6]
           a == last'.args[7]
           flagged == a >= highRiskThreshold \/ pattern # "NORMAL"
       IN (flagged /\ sanctionedAddresses[to]) =>
            /\ riskAssessments'[S].active
            /\ riskAssessments'[S].level = "CRITICAL"
            /\ riskAssessments'[S].score = 100
            /\ riskAssessments'[S].reason = "Interaction with sanctioned address"]_vars

\* C20: a flagged transfer with anomaly score 0 from an account without an
\* assessment to a sanctioned receiver left the sender at CRITICAL and 100,
\* where the average is 0.
C20_ForcedOverAverage ==
  /\ Succeeded("analyzeTransaction")
  /\ last.args[3] = A1
  /\ last.args[7] = 0
  /\ sanctionedAddresses[A2]
  /\ alertCounter = 1
  /\ getRiskLevel(A1) = "CRITICAL"
  /\ getRiskScore(A1) = 100

\* number of times x occurs in the sequence q
Occurrences(x, q) == Cardinality({i \in 1..Len(q) : q[i] = x})

\* C21: an analysis is written once per transfer id: once stored, the
\* analysis of a transfer id is changed by no later step, another
\* analyzeTransaction of the same id included, and the id is listed once
\* under its sender and once under its receiver.
C21_WriteOnce ==
  [][\A tx \in DOMAIN transactionAnalyses :
       /\ tx \in DOMAIN transactionAnalyses'
       /\ transactionAnalyses'[tx] = transactionAnalyses[tx]
       /\ Occurrences(tx, addressTransactions'[transactionAnalyses[tx].from]) = 1
       /\ Occurrences(tx, addressTransactions'[transactionAnalyses[tx].to]) = 1]_vars

\* C21, the first write: a transfer id analysed for the first time is
\* stored as given and listed once under each party.
C21_FirstWrite ==
  [][(last'.op = "analyzeTransaction" /\ last'.ok /\ last'.args[2] \notin DOMAIN transactionAnalyses) =>
       LET tx == last'.args[2] IN
       /\ transactionAnalyses'[tx].from = last'.args[3]
       /\ transactionAnalyses'[tx].to = last'.args[4]
       /\ transactionAnalyses'[tx].pattern = last'.args[6]
       /\ transactionAnalyses'[tx].anomalyScore = last'.args[7]
       /\ Occurrences(tx, addressTransactions'[last'.args[3]]) = 1
       /\ Occurrences(tx, addressTransactions'[last'.args[4]]) = 1]_vars

\* C21: one transfer id was analysed twice, first as a NORMAL transfer and
\* then as MIXING, and is listed twice under its sender.
C21_AnalysedTwice ==
  /\ Succeeded("analyzeTransaction")
  /\ last.args[2] = "tx1"
  /\ transactionAnalyses["tx1"].pattern = "MIXING"
  /\ addressTransactions[A1] = <<"tx1", "tx1">>
  /\ alertCounter = 1

\* C22: every successful flagged analyzeTransaction adds exactly one to the
\* flagged count and raises exactly one new alert, unresolved, targeting the
\* sender, with the pattern and the severity of the analysis; an unflagged
\* one changes neither the count nor the alerts; and in every reachable
\* state the flagged count equals alertCounter.
C22_OneAlertPerFlagged ==
  /\ [](flaggedTransactionCount = alertCounter)
  /\ [][(last'.op = "analyzeTransaction" /\ last'.ok /\ addressTransactions' # addressTransactions) =>
          LET tx == last'.args[2]
              sender == last'.args[3]
              pattern == last'.args[6]
              a == last'.args[7]
              id == alertCounter + 1
          IN IF a >= highRiskThreshold \/ pattern # "NORMAL"
             THEN /\ flaggedTransactionCount' = flaggedTransactionCount + 1
                  /\ alertCounter' = id
                  /\ alerts'[id].target = sender
                  /\ alerts'[id].pattern = pattern
                  /\ alerts'[id].severity = transactionAnalyses'[tx].severity
                  /\ ~alerts'[id].resolved
                  /\ \A k \in DOMAIN alerts' \ {id} : k \in DOMAIN alerts /\ alerts'[k] = alerts[k]
             ELSE /\ flaggedTransactionCount' = flaggedTransactionCount
                  /\ alertCounter' = alertCounter
                  /\ alerts' = alerts]_vars

\* C22: two flagged analyses and no other raised two alerts, the second
\* from a NORMAL transfer flagged by its score.
C22_TwoFlagged ==
  /\ Succeeded("analyzeTransaction")
  /\ last.args[6] = "NORMAL"
  /\ last.args[7] = 100
  /\ flaggedTransactionCount = 2
  /\ alertCounter = 2
  /\ Alert(2).target = A1
  /\ ~Alert(2).resolved

\* C23: performComplianceCheck(account, jurisdiction, isPEP, sourceId) with
\* an active source replaces the account's snapshot by one with isSanctioned
\* = (the account's sanction flag or the jurisdiction is sanctioned) and the
\* given isPEP and jurisdiction; it then sets the account's risk to
\* CRITICAL/100 if isSanctioned, else to HIGH/75 if isPEP, and otherwise
\* leaves the risk ledger as it was; the sanction flags never change.
C23_CheckSnapshotAndRisk ==
  [][(last'.op = "performComplianceCheck" /\ last'.ok
        /\ (complianceChecks' # complianceChecks \/ dataSources' # dataSources \/ riskVars' # riskVars)) =>
       LET account == last'.args[2]
           jurisdiction == last'.args[3]
           isPEP == last'.args[4]
           sourceId == last'.args[5]
           flag == sanctionedAddresses[account] \/ jurisdiction \in sanctionedJurisdictions
       IN /\ DataSource(sourceId).active
          /\ complianceChecks'[account].isSanctioned = flag
          /\ complianceChecks'[account].isPEP = isPEP
          /\ complianceChecks'[account].jurisdiction = jurisdiction
          /\ complianceChecks'[account].dataSourceId = sourceId
          /\ flag => /\ riskAssessments'[account].active
                     /\ riskAssessments'[account].level = "CRITICAL"
                     /\ riskAssessments'[account].score = 100
          /\ (~flag /\ isPEP) => /\ riskAssessments'[account].active
                                 /\ riskAssessments'[account].level = "HIGH"
                                 /\ riskAssessments'[account].score = 75
          /\ (~flag /\ ~isPEP) => riskVars' = riskVars
          /\ sanctionedAddresses' = sanctionedAddresses
          /\ sanctionedJurisdictions' = sanctionedJurisdictions]_vars

\* C23: a check of an unsanctioned account from a sanctioned jurisdiction
\* recorded isSanctioned and raised the account to CRITICAL/100, the
\* account's own sanction flag staying unset.
C23_SanctionedJurisdiction ==
  /\ Succeeded("performComplianceCheck")
  /\ last.args[3] = "KP"
  /\ ~last.args[4]
  /\ ~sanctionedAddresses[A1]
  /\ complianceChecks[A1].isSanctioned
  /\ getRiskLevel(A1) = "CRITICAL"
  /\ getRiskScore(A1) = 100

\* C24 as stated: clearSanction fails unless the flag is set, unsets only
\* that flag, and leaves risk assessment and compliance snapshot as they
\* were; right after sanctionAddress followed by clearSanction the account
\* is still CRITICAL/100 and, with enforcement enabled, every
\* checkTransaction from it is denied with FREEZE.
C24_ClearedStillFrozenOut ==
  [][\A a \in Accounts :
       (last'.op = "clearSanction" /\ last'.ok /\ last'.args[2] = a /\ sanctionedAddresses'[a] # sanctionedAddresses[a]
          /\ last.op = "sanctionAddress" /\ last.ok /\ last.args[2] = a /\ enforcementEnabled)
         => \A to \in Accounts \ {a}, amount \in AmountInputs :
              Returned(checkTransaction(a, to, amount)', FALSE, "FREEZE")]_vars

\* C24 as the code has it: clearSanction fails unless the flag is set; a
\* successful one unsets that flag and changes nothing else, the risk
\* assessment and the compliance snapshot included; right after
\* sanctionAddress followed by clearSanction the account is still
\* CRITICAL/100, and checkTransaction from it is denied with FREEZE when
\* enforcement is enabled, the account is not whitelisted and the receiver
\* is neither frozen nor sanctioned.
C24_ClearUnsetsFlagOnly ==
  [][/\ \A c \in Callers, a \in Accounts :
          (last'.op = "clearSanction" /\ ~sanctionedAddresses[a] /\ clearSanction(c, a)) => ~last'.ok
     /\ \A a \in Accounts :
          (last'.op = "clearSanction" /\ last'.ok /\ last'.args[2] = a /\ sanctionedAddresses'[a] # sanctionedAddresses[a])
            => /\ sanctionedAddresses[a]
               /\ sanctionedAddresses' = [sanctionedAddresses EXCEPT ![a] = FALSE]
               /\ riskVars' = riskVars
               /\ complianceChecks' = complianceChecks
               /\ UNCHANGED <<now, sanctionedJurisdictions, dataSources, dataSourceIds, monitorVars, enforcementVars, nftVars>>
               /\ (last.op = "sanctionAddress" /\ last.ok /\ last.args[2] = a)
                    => /\ getRiskLevel(a)' = "CRITICAL"
                       /\ getRiskScore(a)' = 100
                       /\ \A to \in Accounts \ {a}, amount \in AmountInputs :
                            (/\ enforcementEnabled
                             /\ ~accountStatuses[a].whitelisted
                             /\ ~accountStatuses[to].frozen
                             /\ ~sanctionedAddresses[to])
                              => Returned(checkTransaction(a, to, amount)', FALSE, "FREEZE")]_vars

\* C24: A1 was sanctioned and cleared at once; it is no longer sanctioned,
\* still CRITICAL/100, and a transfer from it is denied with FREEZE on its
\* risk level.
C24_ClearedButCritical ==
  /\ Succeeded("clearSanction")
  /\ last.args[2] = A1
  /\ ~isSanctioned(A1)
  /\ getRiskLevel(A1) = "CRITICAL"
  /\ getRiskScore(A1) = 100
  /\ enforcementEnabled
  /\ ~accountStatuses[A1].whitelisted
  /\ ~accountStatuses[A1].frozen
  /\ checkTransaction(A1, A2, 10) = Verdict(FALSE, "FREEZE", "Critical risk - sender")

\* C25: updateThresholds(highRisk, critical) fails and leaves both
\* thresholds as they were unless highRisk < critical <= 100, a successful
\* call stores the pair it was given, and in every reachable state
\* highRiskThreshold < criticalRiskThreshold <= 100 (70 and 90 after
\* construction).
C25_ThresholdsOrdered ==
  /\ highRiskThreshold = 70 /\ criticalRiskThreshold = 90
  /\ [](highRiskThreshold < criticalRiskThreshold /\ criticalRiskThreshold <= 100)
  /\ [][/\ \A h \in {0, 70, 80, 90, 100}, c \in {0, 60, 70, 100, 101} :
            (last'.op = "updateThresholds" /\ ~(h < c /\ c <= 100) /\ updateThresholds(OWNER, h, c))
              => /\ ~last'.ok
                 /\ highRiskThreshold' = highRiskThreshold
                 /\ criticalRiskThreshold' = criticalRiskThreshold
        /\ (last'.op = "updateThresholds" /\ last'.ok /\ last' # last)
              => /\ last'.args[2] < last'.args[3]
                 /\ last'.args[3] <= 100
                 /\ highRiskThreshold' = last'.args[2]
                 /\ criticalRiskThreshold' = last'.args[3]
        /\ (highRiskThreshold' # highRiskThreshold \/ criticalRiskThreshold' # criticalRiskThreshold)
              => last'.op = "updateThresholds" /\ last'.ok]_vars

\* C25: the thresholds were moved to 0 and 100, the widest pair allowed, and
\* the pair (90, 101) was then refused
C25_CeilingRefused ==
  /\ Failed("updateThresholds")
  /\ last.err = "Threshold too high"
  /\ highRiskThreshold = 0
  /\ criticalRiskThreshold = 100

\* C26: freezeAccount on a frozen account fails and leaves its
\* freezeTimestamp, freezeInitiator and freezeReason (the whole status) as
\* they were; unfreezeAccount on an account that is not frozen fails; a
\* successful freezeAccount sets frozen and the three freeze fields, a
\* successful unfreezeAccount resets frozen, and neither changes whitelisted,
\* dailyLimit, dailySpent or lastResetTimestamp, nor another account's status.
C26_FreezeFrame ==
  [][/\ \A a \in Accounts :
          (last'.op = "freezeAccount" /\ accountStatuses[a].frozen /\ freezeAccount(OWNER, a, "r"))
            => ~last'.ok /\ accountStatuses' = accountStatuses
     /\ \A a \in Accounts :
          (last'.op = "unfreezeAccount" /\ ~accountStatuses[a].frozen /\ unfreezeAccount(OWNER, a))
            => ~last'.ok /\ accountStatuses' = accountStatuses
     /\ \A a \in Accounts :
          (last'.op = "freezeAccount" /\ last'.ok /\ last'.args[2] = a /\ accountStatuses' # accountStatuses)
            => /\ ~accountStatuses[a].frozen
               /\ accountStatuses' = [accountStatuses EXCEPT
                      ![a].frozen = TRUE,
                      ![a].freezeTimestamp = now,
                      ![a].freezeInitiator = last'.args[1],
                      ![a].freezeReason = last'.args[3]]
               /\ accountStatuses'[a].whitelisted = accountStatuses[a].whitelisted
               /\ accountStatuses'[a].dailyLimit = accountStatuses[a].dailyLimit
               /\ accountStatuses'[a].dailySpent = accountStatuses[a].dailySpent
               /\ accountStatuses'[a].lastResetTimestamp = accountStatuses[a].lastResetTimestamp
     /\ \A a \in Accounts :
          (last'.op = "unfreezeAccount" /\ last'.ok /\ last'.args[2] = a /\ accountStatuses' # accountStatuses)
            => /\ accountStatuses[a].frozen
               /\ accountStatuses' = [accountStatuses EXCEPT ![a].frozen = FALSE]
               /\ accountStatuses'[a].whitelisted = accountStatuses[a].whitelisted
               /\ accountStatuses'[a].dailyLimit = accountStatuses[a].dailyLimit
               /\ accountStatuses'[a].dailySpent = accountStatuses[a].dailySpent
               /\ accountStatuses'[a].lastResetTimestamp = accountStatuses[a].lastResetTimestamp]_vars

\* C26: A1, with a limit of its own and spending on record, was frozen at
\* an earlier time and a second freezeAccount was just refused
C26_RefreezeRefused ==
  /\ Failed("freezeAccount")
  /\ last.err = "Already frozen"
  /\ accountStatuses[A1].frozen
  /\ accountStatuses[A1].freezeTimestamp < now
  /\ accountStatuses[A1].dailyLimit = 100
  /\ accountStatuses[A1].dailySpent > 0

\* C27: clearRisk(account) fails without an active assessment; a successful
\* one sets active to false and nothing else (stored level, score and reason
\* stay, as do the per-level index and the counter), after which
\* getRiskLevel is NONE, getRiskScore is 0 and isHighRisk is false; and in
\* every state isHighRisk(a) holds exactly when getRiskLevel(a) is HIGH or
\* CRITICAL.
C27_ClearRetiresOnly ==
  /\ [](\A a \in Accounts : isHighRisk(a) <=> getRiskLevel(a) \in {"HIGH", "CRITICAL"})
  /\ [][/\ \A c \in Callers, a \in Accounts :
            (last'.op = "clearRisk" /\ ~riskAssessments[a].active /\ clearRisk(c, a))
              => ~last'.ok /\ riskVars' = riskVars
        /\ \A a \in Accounts :
            (last'.op = "clearRisk" /\ last'.ok /\ last'.args[2] = a /\ riskAssessments' # riskAssessments)
              => /\ riskAssessments[a].active
                 /\ riskAssessments' = [riskAssessments EXCEPT ![a].active = FALSE]
                 /\ riskAssessments'[a].level = riskAssessments[a].level
                 /\ riskAssessments'[a].score = riskAssessments[a].score
                 /\ riskAssessments'[a].reason = riskAssessments[a].reason
                 /\ UNCHANGED <<addressesByRisk, totalAssessments>>
                 /\ getRiskLevel(a)' = "NONE"
                 /\ getRiskScore(a)' = 0
                 /\ ~isHighRisk(a)']_vars

\* C27: the CRITICAL assessment of A1 was just cleared; level 100/CRITICAL
\* is still stored, and the getters read NONE, 0 and not high risk
C27_ClearedCritical ==
  /\ Succeeded("clearRisk")
  /\ last.args[2] = A1
  /\ ~riskAssessments[A1].active
  /\ riskAssessments[A1].level = "CRITICAL"
  /\ riskAssessments[A1].score = 100
  /\ getRiskLevel(A1) = "NONE"
  /\ getRiskScore(A1) = 0
  /\ ~isHighRisk(A1)

\* C28: a successful assessRisk is a new assessment, counted in
\* totalAssessments, exactly when the account had no active assessment
\* before the call, and an update, not counted, when it had one; so
\* re-assessing after clearRisk counts, and re-assessing an active
\* assessment of level NONE does not.
C28_NewIffNoActive ==
  [][\A a \in Accounts :
       (last'.op = "assessRisk" /\ last'.ok /\ last'.args[2] = a /\ addressesByRisk' # addressesByRisk)
         => totalAssessments' = IF riskAssessments[a].active THEN totalAssessments ELSE totalAssessments + 1]_vars

\* C28, what the code does: a successful assessRisk is counted exactly when
\* the level stored for the account, active or not, was NONE.
C28_NewIffStoredLevelNone ==
  [][\A a \in Accounts :
       (last'.op = "assessRisk" /\ last'.ok /\ last'.args[2] = a /\ addressesByRisk' # addressesByRisk)
         => totalAssessments' = IF riskAssessments[a].level = "NONE" THEN totalAssessments + 1 ELSE totalAssessments]_vars

\* C28: A1 was assessed twice with level NONE and counted twice
C28_CountedTwice ==
  /\ Succeeded("assessRisk")
  /\ addressesByRisk["NONE"] = <<A1, A1>>
  /\ totalAssessments = 2

\* the score-to-level table of the ledger, by ranges
ScoreLevelTable(score) ==
  CASE score \in 90..100 -> "CRITICAL"
    [] score \in 70..89 -> "HIGH"
    [] score \in 40..69 -> "MEDIUM"
    [] score \in 10..39 -> "LOW"
    [] score \in 0..9 -> "NONE"

\* C29: updateRiskScore(account, newScore) fails and leaves the ledger as it
\* was when the account has no active assessment or newScore > 100; a
\* successful call stores newScore with the level the table gives it and the
\* time of the call, appends the account to the new level's index exactly
\* when the level changed, and changes nothing else.
C29_UpdateByTable ==
  [][/\ \A c \in Callers, s \in {0, 70, 100, 101} :
          (last'.op = "updateRiskScore" /\ (~riskAssessments[A1].active \/ s > 100) /\ updateRiskScore(c, A1, s))
            => ~last'.ok /\ riskVars' = riskVars
     /\ \A a \in Accounts :
          (last'.op = "updateRiskScore" /\ last'.ok /\ last'.args[2] = a)
            => /\ riskAssessments'[a].active
               /\ last'.args[3] <= 100
               /\ riskAssessments'[a].score = last'.args[3]
               /\ riskAssessments'[a].level = ScoreLevelTable(last'.args[3])
               /\ \/ UNCHANGED vars
                  \/ /\ riskAssessments[a].active
                     /\ riskAssessments' = [riskAssessments EXCEPT
                            ![a].score = last'.args[3],
                            ![a].level = ScoreLevelTable(last'.args[3]),
                            ![a].timestamp = now]
                     /\ addressesByRisk' =
                          IF riskAssessments'[a].level # riskAssessments[a].level
                          THEN [addressesByRisk EXCEPT ![riskAssessments'[a].level] = Append(@, a)]
                          ELSE addressesByRisk
                     /\ UNCHANGED totalAssessments]_vars

\* C29: the MEDIUM assessment of A1 was moved to score 70, and with it to
\* level HIGH, by updateRiskScore; A1 is listed under both levels
C29_MovedUpALevel ==
  /\ Succeeded("updateRiskScore")
  /\ last.args = <<OWNER, A1, 70>>
  /\ riskAssessments[A1].score = 70
  /\ riskAssessments[A1].level = "HIGH"
  /\ addressesByRisk["MEDIUM"] = <<A1>>
  /\ addressesByRisk["HIGH"] = <<A1>>

\* C30: assessRisk fails when the score is above 100, when the reason is
\* empty or when the account is the zero address, so a call that succeeds
\* had none of the three; and a failed call leaves every assessment, the
\* per-level index and the assessment counter as they were.
C30_RejectedAssessment ==
  /\ [](\A c \in Callers, t \in {ZERO, A1, A2}, s \in AssessScoreInputs, r \in Reasons :
          (t = ZERO \/ s > 100 \/ r = "") => assessRiskError(c, t, s, r) # "")
  /\ [][/\ (last'.op = "assessRisk" /\ last'.ok)
             => /\ last'.args[2] # ZERO
                /\ last'.args[4] <= 100
                /\ last'.args[5] # ""
        /\ (last'.op = "assessRisk" /\ ~last'.ok)
             => /\ last'.err \in {Unauthorized, "Invalid target address", "Score must be 0-100", "Reason required"}
                /\ riskAssessments' = riskAssessments
                /\ addressesByRisk' = addressesByRisk
                /\ totalAssessments' = totalAssessments]_vars

\* C30: A1 holds an assessment of score 40 and a re-assessment with a score
\* above 100 was just refused
C30_ScoreRefused ==
  /\ Failed("assessRisk")
  /\ last.err = "Score must be 0-100"
  /\ riskAssessments[A1].active
  /\ riskAssessments[A1].score = 40
  /\ Indexed(addressesByRisk) = 1
  /\ totalAssessments = 1

\* C31: registerDataSource generates a unique source id: the ids of any two
\* successful registrations differ, the same name at the same time
\* included; a registration never overwrites an existing DataSource record;
\* and a registration with an empty name fails.
C31_UniqueSourceId ==
  /\ [](\A i, j \in DOMAIN dataSourceIds : i # j => dataSourceIds[i] # dataSourceIds[j])
  /\ [][(last'.op = "registerDataSource" /\ last'.ok /\ dataSourceIds' # dataSourceIds)
          => /\ last'.args[2] # ""
             /\ \A k \in DOMAIN dataSources : dataSources'[k] = dataSources[k]]_vars

\* C31, what the code gives: a registration whose name and time differ from
\* those of every earlier one gets an id of its own and leaves the earlier
\* records as they were.
C31_FreshWhenNameOrTimeDiffers ==
  [][(last'.op = "registerDataSource" /\ last'.ok /\ dataSourceIds' # dataSourceIds
        /\ \A k \in DOMAIN dataSources : dataSources[k].name # last'.args[2] \/ dataSources[k].lastUpdate # now)
       => /\ \A i \in DOMAIN dataSourceIds : dataSourceIds[i] # dataSourceIds'[Len(dataSourceIds')]
          /\ \A k \in DOMAIN dataSources : dataSources'[k] = dataSources[k]]_vars

\* C31: two registrations of the name OFAC at one time share one id and one
\* record
C31_SameIdTwice ==
  /\ Succeeded("registerDataSource")
  /\ Len(dataSourceIds) = 2
  /\ dataSourceIds[1] = dataSourceIds[2]
  /\ Cardinality(DOMAIN dataSources) = 1
  /\ dataSources[dataSourceIds[1]].name = "OFAC"

\* C32: approveDelayedTransaction(id) fails if the record is already
\* executed or already approved; a successful call sets approved and records
\* the reviewer; approved never returns to false for that record; and
\* approval does not execute: executed changes only when
\* executeDelayedTransaction succeeds.
C32_ApprovedForGood ==
  [][\A id \in TxIdInputs :
       /\ \A c \in Callers :
            (last'.op = "approveDelayedTransaction" /\ (Delayed(id).executed \/ Delayed(id).approved)
               /\ approveDelayedTransaction(c, id)) => ~last'.ok
       /\ (last'.op = "approveDelayedTransaction" /\ last'.ok /\ last'.args[2] = id
             /\ delayedTransactions' # delayedTransactions)
            => /\ Delayed(id)'.approved
               /\ Delayed(id)'.reviewer = last'.args[1]
               /\ Delayed(id)'.executed = Delayed(id).executed
       /\ Delayed(id).approved => Delayed(id)'.approved
       /\ Delayed(id)'.executed # Delayed(id).executed
            => last'.op = "executeDelayedTransaction" /\ last'.ok]_vars

\* C32, the call alone: approveDelayedTransaction(id) fails if the record is
\* executed or approved, and a successful call sets approved, records the
\* reviewer and changes nothing else of the record, executed included.
C32_ApproveGuards ==
  [][\A id \in TxIdInputs :
       /\ \A c \in Callers :
            (last'.op = "approveDelayedTransaction" /\ (Delayed(id).executed \/ Delayed(id).approved)
               /\ approveDelayedTransaction(c, id)) => ~last'.ok
       /\ (last'.op = "approveDelayedTransaction" /\ last'.ok /\ last'.args[2] = id
             /\ delayedTransactions' # delayedTransactions)
            => /\ ~Delayed(id).executed /\ ~Delayed(id).approved
               /\ Delayed(id)' = [Delayed(id) EXCEPT !.approved = TRUE, !.reviewer = last'.args[1]]]_vars

\* C32: a queued transfer from A1 was just approved and is not executed
C32_ApprovedNotExecuted ==
  /\ Succeeded("approveDelayedTransaction")
  /\ Delayed(last.args[2]).from = A1
  /\ Delayed(last.args[2]).approved
  /\ Delayed(last.args[2]).reviewer = OWNER
  /\ ~Delayed(last.args[2]).executed

\* C33: isCompliant(a) is computed from the last stored ComplianceCheck of
\* a and not from live sanction state: no sanctionAddress, clearSanction or
\* sanctionJurisdiction call changes the value of isCompliant(a).
C33_CompliantIsSnapshot ==
  [][\A a \in Accounts :
       last'.op \in {"sanctionAddress", "clearSanction", "sanctionJurisdiction"}
         => isCompliant(a)' = isCompliant(a)]_vars

\* C33, what the code gives: none of the three calls changes a stored
\* ComplianceCheck; sanctionAddress and clearSanction never change
\* isCompliant(a), so an account can be sanctioned and compliant at once;
\* sanctionJurisdiction(j) turns isCompliant(a) from true to false exactly
\* for the accounts whose stored check names j, and changes it for no other.
C33_CompliantButForJurisdiction ==
  [][\A a \in Accounts :
       /\ last'.op \in {"sanctionAddress", "clearSanction", "sanctionJurisdiction"}
            => complianceChecks' = complianceChecks
       /\ last'.op \in {"sanctionAddress", "clearSanction"}
            => isCompliant(a)' = isCompliant(a)
       /\ (last'.op = "sanctionJurisdiction" /\ last'.ok)
            => (isCompliant(a)' # isCompliant(a)
                  <=> /\ isCompliant(a)
                      /\ complianceChecks[a].jurisdiction = last'.args[2])
       /\ (last'.op = "sanctionJurisdiction" /\ ~last'.ok)
            => isCompliant(a)' = isCompliant(a)]_vars

\* C33: A1 was checked in jurisdiction KP and found clean; KP was sanctioned
\* afterwards and A1 stopped being compliant with its stored check unchanged
C33_StaleCheckLiveJurisdiction ==
  /\ Succeeded("sanctionJurisdiction")
  /\ ~complianceChecks[A1].isSanctioned
  /\ complianceChecks[A1].jurisdiction = "KP"
  /\ ~isCompliant(A1)

\* C33: A1 is on the sanction list and compliant by its stored check
C33_SanctionedAndCompliant ==
  /\ Succeeded("sanctionAddress")
  /\ isSanctioned(A1)
  /\ complianceChecks[A1].timestamp > 0
  /\ isCompliant(A1)

\* C34: executed is terminal: once a record has executed = true no step,
\* createDelayedTransaction with the same from, to and amount included,
\* resets its executed or approved flag or changes its from, to, amount or
\* delayUntil; and createDelayedTransaction always returns an id that was
\* not in use, for a record with delayUntil = now + delayPeriod.
C34_ExecutedIsTerminal ==
  [][\A id \in TxIdInputs :
       /\ Delayed(id).executed
            => /\ Delayed(id)'.executed
               /\ Delayed(id)'.approved = Delayed(id).approved
               /\ Delayed(id)'.from = Delayed(id).from
               /\ Delayed(id)'.to = Delayed(id).to
               /\ Delayed(id)'.amount = Delayed(id).amount
               /\ Delayed(id)'.delayUntil = Delayed(id).delayUntil
       /\ (last'.op = "createDelayedTransaction" /\ last'.ok /\ accountDelayedTxs' # accountDelayedTxs
             /\ id = DelayedTxId(last'.args[2], last'.args[3], last'.args[4], now))
            => /\ id \notin DOMAIN delayedTransactions
               /\ Delayed(id)'.delayUntil = now + delayPeriod]_vars

\* C34, what the code gives: a successful createDelayedTransaction stores,
\* under the id of its from, to, amount and time, a record with those
\* values, delayUntil = now + delayPeriod and both flags false, and lists the
\* id under the sender; approveDelayedTransaction and
\* executeDelayedTransaction never change an executed record.
C34_CreateStampsDelay ==
  [][\A id \in TxIdInputs :
       /\ (last'.op = "createDelayedTransaction" /\ last'.ok /\ accountDelayedTxs' # accountDelayedTxs
             /\ id = DelayedTxId(last'.args[2], last'.args[3], last'.args[4], now))
            => /\ Delayed(id)' = [txId |-> id, from |-> last'.args[2], to |-> last'.args[3], amount |-> last'.args[4],
                                  data |-> last'.args[5], delayUntil |-> now + delayPeriod,
                                  executed |-> FALSE, approved |-> FALSE, reviewer |-> ZERO]
               /\ accountDelayedTxs' = [accountDelayedTxs EXCEPT ![last'.args[2]] = Append(@, id)]
               /\ \A k \in DOMAIN delayedTransactions \ {id} : delayedTransactions'[k] = delayedTransactions[k]
       /\ (Delayed(id).executed /\ last'.op # "createDelayedTransaction")
            => Delayed(id)' = Delayed(id)]_vars

\* C34: the transfer queued from A1 was executed, and an approval of it was
\* refused afterwards
C34_ExecutedRefusesApproval ==
  /\ Failed("approveDelayedTransaction")
  /\ last.err = "Already executed"
  /\ \E id \in TxIdInputs :
       /\ Delayed(id).from = A1
       /\ Delayed(id).executed
       /\ Delayed(id).delayUntil = id[4] + delayPeriod

\* C35: in every reachable state every score stored in the risk ledger is
\* within 0..100, whatever the interleaving of assessRisk, updateRiskScore,
\* sanctionAddress, performComplianceCheck and analyzeTransaction with its
\* averaged fold-in, and every anomalyScore stored in an analysis is within
\* 0..100.
C35_ScoresInRange ==
  /\ \A a \in Addresses : riskAssessments[a].score \in 0..100
  /\ \A k \in DOMAIN transactionAnalyses : transactionAnalyses[k].anomalyScore \in 0..100

\* C35: an anomaly score of 100 was folded into an assessment of score 100:
\* the average written by the monitor is 100, the top of the range
C35_FoldedAtTheTop ==
  /\ Succeeded("analyzeTransaction")
  /\ transactionAnalyses["tx1"].anomalyScore = 100
  /\ riskAssessments[A1].score = 100
  /\ riskAssessments[A1].assessor = TransactionMonitorAddr
  /\ riskAssessments[A1].reason = "Automated risk update from transaction monitoring"

\* C36: a delayed transaction is approved and executed only if it was
\* created: approveDelayedTransaction and executeDelayedTransaction fail on
\* an id under which no record was created, so every executed record has a
\* sender and a delayUntil stamped at creation.
C36_OnlyCreatedExecuted ==
  /\ [](\A k \in DOMAIN delayedTransactions :
          delayedTransactions[k].executed
            => /\ delayedTransactions[k].from # ZERO
               /\ delayedTransactions[k].delayUntil = k[4] + delayPeriod)
  /\ [][\A id \in TxIdInputs :
          (last'.op \in {"approveDelayedTransaction", "executeDelayedTransaction"} /\ last'.ok
             /\ last'.args[2] = id /\ delayedTransactions' # delayedTransactions)
            => Delayed(id).from # ZERO]_vars

\* C36: an id under which nothing was created was approved and executed: the
\* executed record has no sender and no delayUntil
C36_ExecutedNeverCreated ==
  /\ Succeeded("executeDelayedTransaction")
  /\ Delayed(last.args[2]).executed
  /\ Delayed(last.args[2]).approved
  /\ Delayed(last.args[2]).from = ZERO
  /\ Delayed(last.args[2]).delayUntil = 0
  /\ accountDelayedTxs[A1] = <<>>

\* C37: with enforcement enabled, A1 never whitelisted, its limit left at
\* the default, and recordSpending(A1, x) issued only when
\* checkTransaction(A1, A2, x) returns allowed, dailySpent of A1 never
\* exceeds the limit.
C37_SpentWithinLimit ==
  /\ enforcementEnabled
  /\ ~accountStatuses[A1].whitelisted
  /\ effectiveLimit(A1) = defaultDailyLimit
  /\ accountStatuses[A1].dailySpent <= effectiveLimit(A1)

\* C37: A1 has spent its limit to the last unit in the window that began
\* now, and any further amount is refused with LIMIT
C37_LimitReached ==
  /\ last.op = "checkTransaction"
  /\ accountStatuses[A1].dailySpent = effectiveLimit(A1)
  /\ accountStatuses[A1].lastResetTimestamp = now
  /\ ~accountStatuses[A1].frozen
  /\ checkTransaction(A1, A2, 5) = Verdict(FALSE, "LIMIT", "Daily limit exceeded")

\* C37, without the discipline: recordSpending never rejects on the limit,
\* so dailySpent can exceed it
C37_OverspentUnchecked ==
  /\ Succeeded("recordSpending")
  /\ accountStatuses[A1].dailySpent > effectiveLimit(A1)

\* C38: in every reachable state a sealed report has status APPROVED and a
\* reviewer that is not the zero address and holds the auditor role; no
\* report is sealed while DRAFT, SUBMITTED or REJECTED.
C38_SealedWasApproved ==
  \A id \in DOMAIN reports :
    reports[id].isSealed
      => /\ reports[id].status = "APPROVED"
         /\ reports[id].status \notin {"DRAFT", "SUBMITTED", "REJECTED"}
         /\ reports[id].reviewer # ZERO
         /\ reports[id].reviewer \in NFT_AUDITOR_ROLE
         /\ reports[id].reviewTimestamp > 0

\* C38: report 1 is sealed and approved with its reviewer on record, and a
\* further review of it was just refused
C38_SealedKeepsReview ==
  /\ Failed("reviewReport")
  /\ 1 \in DOMAIN reports
  /\ reports[1].isSealed
  /\ reports[1].status = "APPROVED"
  /\ reports[1].reviewer = OWNER

\* C39: updateReportData by the report's owner with a content reference
\* succeeds in every unsealed status and changes the content reference and
\* the data digest of that report (and the token URI built from them) and
\* nothing else: status, reviewer, subject, issuer and isSealed stay;
\* sealReport keeps the digest, so a sealed report carries the digest of the
\* last update before sealing, which can be one written after the approval;
\* verifyReportData answers by the digest stored now and changes no state.
C39_UpdateTouchesDataOnly ==
  /\ [](\A id \in DOMAIN owners, st \in {"DRAFT", "SUBMITTED", "APPROVED", "REJECTED"} :
          (Report(id).status = st /\ ~Report(id).isSealed)
            => updateReportDataError(owners[id], id, "Qm2") = "")
  /\ [][\A id \in TokenIdInputs :
          /\ (last'.op = "updateReportData" /\ last'.ok /\ last'.args[2] = id)
               => /\ reports' = WriteReport(id, [Report(id) EXCEPT !.ipfsHash = last'.args[3], !.dataHash = last'.args[4]])
                  /\ reports'[id].status = Report(id).status
                  /\ reports'[id].reviewer = Report(id).reviewer
                  /\ reports'[id].subject = Report(id).subject
                  /\ reports'[id].issuer = Report(id).issuer
                  /\ reports'[id].isSealed = Report(id).isSealed
                  /\ UNCHANGED <<owners, subjectReports, issuerReports, tokenIdCounter>>
          /\ (last'.op = "sealReport" /\ last'.ok /\ last'.args[2] = id)
               => reports'[id].dataHash = Report(id).dataHash
          /\ (last'.op = "verifyReportData" /\ last'.args[2] = id)
               => /\ UNCHANGED <<now, stateVars>>
                  /\ last'.args[4] = (keccak256(last'.args[3]) = Report(id).dataHash)]_vars

\* C39: the owner replaced the data of report 1 after the auditor had
\* approved it; the report is still APPROVED with its reviewer, unsealed, and
\* verifies against the new data and no longer against the approved data
C39_ChangedAfterApproval ==
  /\ Succeeded("updateReportData")
  /\ last.args[2] = 1
  /\ Report(1).status = "APPROVED"
  /\ Report(1).reviewer = OWNER
  /\ ~Report(1).isSealed
  /\ Report(1).dataHash = "0xd2"
  /\ verifyReportData(1, "d2")
  /\ ~verifyReportData(1, "d1")

\* C40: the status of every report is DRAFT, SUBMITTED, APPROVED or
\* REJECTED in every reachable state, never UNDER_REVIEW or ARCHIVED; and
\* REJECTED is terminal: a rejected report stays rejected and unsealed, and
\* every submitReport, reviewReport and sealReport naming it is refused.
C40_RejectedIsTerminal ==
  /\ [](\A id \in DOMAIN reports :
          /\ reports[id].status \in {"DRAFT", "SUBMITTED", "APPROVED", "REJECTED"}
          /\ reports[id].status = "REJECTED"
               => /\ ~reports[id].isSealed
                  /\ \A c \in Callers :
                       /\ submitReportError(c, id) # ""
                       /\ reviewReportError(c, id) # ""
                       /\ sealReportError(c, id) # "")
  /\ [][\A id \in DOMAIN reports :
          reports[id].status = "REJECTED"
            => /\ id \in DOMAIN reports'
               /\ reports'[id].status = "REJECTED"
               /\ ~reports'[id].isSealed
               /\ reports'[id].reviewer = reports[id].reviewer]_vars

\* C40: one report was rejected and another approved, and the sealing of
\* the rejected one was just refused
C40_RejectedNotSealable ==
  /\ Failed("sealReport")
  /\ last.err = "Report must be approved"
  /\ \E id \in DOMAIN reports : reports[id].status = "REJECTED" /\ reports[id].reviewer = OWNER
  /\ \E id \in DOMAIN reports : reports[id].status = "APPROVED"

====
